---- MODULE Spec2Model ----
(***************************************************************************)
(* Model of the A2A task-lifecycle engine (src/src/service/service.ts)     *)
(* running over the reference in-memory store                              *)
(* (src/src/storage/memory-store.ts), or over a store of the same shape    *)
(* whose saves may be rejected (src/src/storage/file-store.ts).            *)
(*                                                                         *)
(* JavaScript runs one continuation at a time; control changes hands only  *)
(* at an `await`.  Every action below is the code executed between two     *)
(* awaits of one request.  The store methods are async functions without   *)
(* inner awaits: the map is read / written at call time and the caller     *)
(* resumes in a later continuation, so the map access belongs to the       *)
(* action that makes the call.                                             *)
(*                                                                         *)
(* JavaScript values are represented as TLA+ records: an optional          *)
(* property is a field that is present or absent in DOMAIN, null is the    *)
(* record Null, a non-object (primitive) value is a record with the field  *)
(* "prim".                                                                 *)
(***************************************************************************)
EXTENDS Integers, Sequences, FiniteSets, TLC

VARIABLES
    taskHandler,          \* A2AService.taskHandler: the values the handler may yield
    hasResolver,          \* A2AService.agentSessionResolver is configured
    inbound,              \* environment: the requests clients may send
    serial,               \* environment: clients send one request at a time
    storeFaulty,          \* A2AService.taskStore is a store whose saveTask may reject
    arrivals,             \* environment: number of requests received so far
    delivered,            \* environment: number of values the handlers have delivered
    reqs,                 \* per request: body and outcome of session resolution
    pc,                   \* position of each request's async call chain
    store,                \* InMemoryStore.taskStore : key -> TaskAndHistory
    activeCancellations,  \* A2AService.activeCancellations
    now,                  \* the server clock read by getCurrentTimestamp
    loaded,               \* per request: result of the pending loadTask
    currentData,          \* per request: local `currentData` / `data`
    saveFailed,           \* per request: the pending saveTask rejects
    handlerError,         \* per request: the error caught by `catch (handlerError)`
    lastEventWasFinal,    \* per request: local of handleTaskSendSubscribe
    returned,             \* per request: results handed to sendJsonResponse
    responses,            \* per request: bodies written with res.json
    events,               \* per request: SSE events written with res.write
    streamOpen,           \* per request: res.writeHead(200, event-stream) done
    ended,                \* per request: number of res.end() calls
    forwarded,            \* per request: errors handed to next()
    yielded,              \* history: values delivered by the handler, with apply time
                          \* and the answer of the handler's isCancelled() poll
    pulls,                \* history: number of generator.next() calls
    saveLog,              \* history: every saveTask call of the request, in order
    acked,                \* history: number of saveTask awaits that have resumed
    counts                \* history, per task key: submissions resolved and agent
                          \* messages pushed by status updates

vars == << taskHandler, hasResolver, inbound, serial, storeFaulty, arrivals, delivered, reqs, pc, store,
           activeCancellations, now, loaded, currentData, saveFailed, handlerError,
           lastEventWasFinal, returned, responses, events, streamOpen, ended, forwarded,
           yielded, pulls, saveLog, acked, counts >>

(***************************************************************************)
(* Bounds of the model.                                                    *)
(***************************************************************************)
NumReq == 2        \* requests that can be in progress at the same time
MaxRequests == 2   \* requests received in one run of the model
MaxYields == 3     \* values the handlers deliver in one run of the model
MaxClock == 1      \* last clock value the model distinguishes

Req == 1 .. NumReq

Null == [null |-> TRUE]

(***************************************************************************)
(* utils: getCurrentTimestamp, isObject, isTaskStatusUpdate,               *)
(* isArtifactUpdate.                                                       *)
(***************************************************************************)
\* new Date().toISOString(): the clock may or may not have advanced since
\* it was last read; ISO-8601 UTC strings of equal length compare like the
\* instants they denote, so an instant is represented by its tick number.
getCurrentTimestamp == { t \in {now, now + 1} : t <= MaxClock }

isObject(value) == "prim" \notin DOMAIN value /\ value # Null

\* a classifier that takes every object without parts for a status update
isTaskStatusUpdateLoose(update) ==
    isObject(update) /\ "parts" \notin DOMAIN update

isTaskStatusUpdate(update) ==
    isObject(update) /\ "state" \in DOMAIN update /\ "parts" \notin DOMAIN update

isArtifactUpdate(update) ==
    isObject(update) /\ "parts" \in DOMAIN update

\* { ...a, ...b }
Spread(a, b) ==
    [k \in DOMAIN a \cup DOMAIN b |-> IF k \in DOMAIN b THEN b[k] ELSE a[k]]

\* JavaScript truthiness of an optional property holding a boolean, a
\* string, an object
TruthyFlag(rec, field) == field \in DOMAIN rec /\ rec[field] = TRUE

TruthyString(rec, field) == field \in DOMAIN rec /\ rec[field] # ""

TruthyObject(rec, field) == field \in DOMAIN rec /\ rec[field] # Null

(***************************************************************************)
(* Array.prototype.sort((a, b) => (a.index ?? 0) - (b.index ?? 0)):        *)
(* a stable sort.                                                          *)
(***************************************************************************)
IndexOrZero(a) == IF "index" \in DOMAIN a THEN a.index ELSE 0

InsertStable(sorted, a) ==
    LET n == Cardinality({ i \in 1 .. Len(sorted) : IndexOrZero(sorted[i]) <= IndexOrZero(a) })
    IN  SubSeq(sorted, 1, n) \o << a >> \o SubSeq(sorted, n + 1, Len(sorted))

RECURSIVE SortByIndex(_)
SortByIndex(s) ==
    IF s = << >> THEN << >>
    ELSE InsertStable(SortByIndex(SubSeq(s, 1, Len(s) - 1)), s[Len(s)])

\* findIndex / find: 0-based position of the first of the matching
\* positions, -1 when there is none
FindIndex(hits) ==
    IF hits = {} THEN -1
    ELSE (CHOOSE i \in hits : \A j \in hits : i <= j) - 1

(***************************************************************************)
(* applyUpdateToTaskAndHistory, with the timestamp read inside it passed   *)
(* as t.                                                                   *)
(***************************************************************************)
\* a merge in which a timestamp of the update overrides the clock
ApplyStatusStampedFirst(current, update, t) ==
    LET newStatus == Spread(Spread(current.task.status, [timestamp |-> t]), update)
    IN  [task |-> [current.task EXCEPT !.status = newStatus],
         history |-> IF /\ "message" \in DOMAIN update
                        /\ "role" \in DOMAIN update.message
                        /\ update.message.role = "agent"
                     THEN Append(current.history, update.message)
                     ELSE current.history]

ApplyStatus(current, update, t) ==
    LET newStatus == Spread(Spread(current.task.status, update), [timestamp |-> t])
        pushes == /\ "message" \in DOMAIN update
                  /\ "role" \in DOMAIN update.message
                  /\ update.message.role = "agent"
    IN  [task |-> [current.task EXCEPT !.status = newStatus],
         history |-> IF pushes THEN Append(current.history, update.message)
                     ELSE current.history]

AppendedArtifact(existing, update) ==
    LET a1 == [existing EXCEPT !.parts = existing.parts \o update.parts]
        a2 == IF TruthyObject(update, "metadata")
              THEN Spread(a1, [metadata |->
                       Spread(IF TruthyObject(a1, "metadata") THEN a1.metadata ELSE << >>,
                              update.metadata)])
              ELSE a1
        a3 == IF "lastChunk" \in DOMAIN update
              THEN Spread(a2, [lastChunk |-> update.lastChunk]) ELSE a2
    IN  IF TruthyString(update, "description")
        THEN Spread(a3, [description |-> update.description]) ELSE a3

ApplyArtifact(current, update) ==
    LET arts == current.task.artifacts
        existingIndex == IF "index" \in DOMAIN update THEN update.index ELSE -1
        byIndex == existingIndex >= 0 /\ existingIndex < Len(arts)
        SameName(a) == "name" \in DOMAIN a /\ a.name = update.name
        namedIndex == IF ~byIndex /\ TruthyString(update, "name")
                      THEN FindIndex({ i \in 1 .. Len(arts) : SameName(arts[i]) }) ELSE -1
        pushed == Append(arts, update)
        newArts ==
            IF byIndex
            THEN [arts EXCEPT ![existingIndex + 1] =
                     IF TruthyFlag(update, "append")
                     THEN AppendedArtifact(arts[existingIndex + 1], update)
                     ELSE update]
            ELSE IF namedIndex >= 0
            THEN [arts EXCEPT ![namedIndex + 1] = update]
            ELSE IF \E i \in 1 .. Len(pushed) : "index" \in DOMAIN pushed[i]
            THEN SortByIndex(pushed)
            ELSE pushed
    IN  [task |-> [current.task EXCEPT !.artifacts = newArts],
         history |-> current.history]

applyUpdateToTaskAndHistory(current, update, t) ==
    IF isTaskStatusUpdate(update) THEN ApplyStatus(current, update, t)
    ELSE IF isArtifactUpdate(update) THEN ApplyArtifact(current, update)
    ELSE current

(***************************************************************************)
(* InMemoryStore: createTaskKey, loadTask, saveTask.  A session id is      *)
(* Null or the record [v |-> string].                                      *)
(***************************************************************************)
createTaskKey(taskId, sessionId) ==
    (IF sessionId = Null THEN "" ELSE sessionId.v) \o ":" \o taskId

loadTask(taskId, sessionId) ==
    LET key == createTaskKey(taskId, sessionId)
    IN  IF key \in DOMAIN store THEN store[key] ELSE Null

\* task.sessionId ?? null
TaskSession(task) ==
    IF "sessionId" \in DOMAIN task THEN [v |-> task.sessionId] ELSE Null

saveTask(data) ==
    LET key == createTaskKey(data.task.id, TaskSession(data.task))
    IN  store' = [k \in DOMAIN store \cup {key} |->
                     IF k = key THEN data ELSE store[k]]

\* TaskStore.saveTask may reject (FileStore.writeJsonFile throws
\* InternalError); InMemoryStore.saveTask never does
SaveOutcomes == IF storeFaulty THEN {TRUE, FALSE} ELSE {TRUE}

\* await this.taskStore.saveTask(data): the call, and whether the promise
\* it returns rejects; a save that rejects leaves the store as it was
SaveCall(r, data) ==
    \E ok \in SaveOutcomes :
        /\ IF ok THEN saveTask(data) ELSE UNCHANGED store
        /\ saveFailed' = [saveFailed EXCEPT ![r] = ~ok]

\* the error with which the request's latest saveTask call rejected
WriteError(r) == "Failed to write file (save " \o ToString(Len(saveLog[r])) \o ")"

(***************************************************************************)
(* Request envelope and parameter validation.  A request id is Null,       *)
(* [str |-> ...] or [num |-> ...]; any other record is a value of another  *)
(* type.                                                                   *)
(***************************************************************************)
isValidJsonRpcRequest(body) ==
    /\ isObject(body)
    /\ "jsonrpc" \in DOMAIN body /\ body.jsonrpc = "2.0"
    /\ "method" \in DOMAIN body
    /\ "id" \in DOMAIN body
    /\ (body.id = Null \/ "str" \in DOMAIN body.id \/ "num" \in DOMAIN body.id)
    /\ ("params" \in DOMAIN body => "prim" \notin DOMAIN body.params)

\* requestBody.params, undefined being represented by Null
ParamsOf(body) == IF "params" \in DOMAIN body THEN body.params ELSE Null

\* validateTaskSendParams: TRUE when it throws InvalidParams
validateTaskSendParamsThrows(params) ==
    \/ ~isObject(params)
    \/ ~TruthyString(params, "id")
    \/ ~TruthyObject(params, "message")
    \/ ~isObject(params.message)
    \/ "parts" \notin DOMAIN params.message

StartsWithDid(s) == Len(s) >= 4 /\ SubSeq(s, 1, 4) = "did:"

\* a resolveSessionId that accepts any session id
resolveSessionIdNeverThrows(agentSession, params) == FALSE

\* resolveSessionId: TRUE when it throws
resolveSessionIdThrows(agentSession, params) ==
    /\ agentSession = Null
    /\ "sessionId" \in DOMAIN params
    /\ StartsWithDid(params.sessionId)

\* a resolveSessionId that prefers the sessionId the caller supplied
resolveSessionIdOfCaller(agentSession, params) ==
    IF "sessionId" \in DOMAIN params THEN [v |-> params.sessionId]
    ELSE IF agentSession # Null THEN [v |-> agentSession.agentDid]
    ELSE Null

resolveSessionId(agentSession, params) ==
    IF agentSession # Null THEN [v |-> agentSession.agentDid]
    ELSE IF "sessionId" \in DOMAIN params THEN [v |-> params.sessionId]
    ELSE Null

\* req.params.id : the task id the request names
TaskIdOf(r) == reqs[r].body.params.id

Method(r) == reqs[r].body.method

IsSubmitMethod(method) == method \in {"tasks/send", "tasks/sendSubscribe"}

IsSubmit(r) == IsSubmitMethod(Method(r))

(***************************************************************************)
(* Response formatting.                                                    *)
(***************************************************************************)
\* createSuccessResponse throws InternalError for a null id
createSuccessResponseThrows(id) == id = Null

createSuccessResponse(id, result) ==
    [jsonrpc |-> "2.0", id |-> id, result |-> result]

createTaskStatusEvent(taskId, status, final) ==
    [id |-> taskId, status |-> status, final |-> final]

createTaskArtifactEvent(taskId, artifact, final) ==
    [id |-> taskId, artifact |-> artifact, final |-> final]

\* sendJsonResponse: the bodies written with res.json (none for a null id)
sendJsonResponse(r, result) ==
    /\ returned' = [returned EXCEPT ![r] = Append(@, result)]
    /\ responses' = [responses EXCEPT ![r] =
           IF reqs[r].body.id = Null THEN @
           ELSE Append(@, createSuccessResponse(reqs[r].body.id, result))]

\* an error thrown by a routed handler reaches endpoint's catch:
\* next(normalizeError(error, requestBody?.id ?? null))
Forward(r, code) ==
    forwarded' = [forwarded EXCEPT ![r] =
        Append(@, [code |-> code,
                   id |-> IF "id" \in DOMAIN reqs[r].body THEN reqs[r].body.id ELSE Null])]

(***************************************************************************)
(* Fixed updates built by the engine.                                      *)
(***************************************************************************)
TextPart(text) == [type |-> "text", text |-> text]

AgentMessage(text) == [role |-> "agent", parts |-> << TextPart(text) >>]

\* a resolver that leaves the old status message in place
resetKeepingMessage == [state |-> "submitted"]

\* a resolver that leaves a finished task in a final state
resetToCompleted == [state |-> "completed", message |-> Null]

resetUpdate == [state |-> "submitted", message |-> Null]

\* a resolver that restarts a task that was waiting for input
workingAsSubmitted == [state |-> "submitted"]

workingUpdate == [state |-> "working"]

failureStatusUpdate(errorText) ==
    [state |-> "failed", message |-> AgentMessage("Handler failed: " \o errorText)]

cancelUpdate ==
    [state |-> "canceled", message |-> AgentMessage("Task cancelled by request.")]

\* a forced final status that leaves the task working
completedAsWorking == [state |-> "working"]

completedUpdate == [state |-> "completed"]

NullIdText == "Cannot create success response for null ID."

\* finalStates of loadOrCreateTaskAndHistory and handleTaskCancel
finalStates == {"completed", "failed", "canceled"}

\* final states for streaming that leave out input-required
streamFinalStatesStrict == {"completed", "failed", "canceled"}

\* terminalStates / finalStates of handleTaskSendSubscribe
streamFinalStates == {"completed", "failed", "canceled", "input-required"}

\* applyUpdateToTaskAndHistory pushes update.message on the history
PushesMessage(update) ==
    /\ isTaskStatusUpdate(update)
    /\ "message" \in DOMAIN update
    /\ "role" \in DOMAIN update.message
    /\ update.message.role = "agent"

NoCounts == [submissions |-> 0, agentMessages |-> 0]

\* record, for the task of data, a resolved submission and / or the update
\* that was applied to it
Counted(data, isSubmission, update) ==
    LET key == createTaskKey(data.task.id, TaskSession(data.task))
        old == IF key \in DOMAIN counts THEN counts[key] ELSE NoCounts
        new == [submissions |-> old.submissions + (IF isSubmission THEN 1 ELSE 0),
                agentMessages |-> old.agentMessages + (IF PushesMessage(update) THEN 1 ELSE 0)]
    IN  counts' = [k \in DOMAIN counts \cup {key} |-> IF k = key THEN new ELSE counts[k]]

cfgVars == << taskHandler, hasResolver, inbound, serial, storeFaulty >>

(***************************************************************************)
(* endpoint: a request arrives; session resolution, envelope validation,   *)
(* routing, and the routed handler up to its first store access.  Nothing  *)
(* shared is read before the resolver's await, so the resolver's outcome   *)
(* is taken from the request and the two halves are one step.  A request   *)
(* takes the lowest free slot; the slot's locals start afresh.             *)
(***************************************************************************)
AgentSessionOf(req) == IF hasResolver THEN req.auth ELSE Null

\* what the code after session resolution and before the first loadTask
\* does with request req: envelope validation, routing, and the checks of
\* the routed handler
RoutedOutcome(req) ==
    LET body == req.body
        agentSession == AgentSessionOf(req)
        params == ParamsOf(body)
    IN  IF ~isValidJsonRpcRequest(body)
        THEN IF body = Null THEN "TypeError" ELSE "InvalidRequest"
        ELSE IF IsSubmitMethod(body.method)
        THEN IF validateTaskSendParamsThrows(params) THEN "InvalidParams"
             ELSE IF resolveSessionIdThrows(agentSession, params) THEN "Error"
             ELSE "load"
        ELSE IF body.method \in {"tasks/get", "tasks/cancel"}
        THEN IF ~isObject(params) THEN "Error"
             ELSE IF ~TruthyString(params, "id") THEN "InvalidParams"
             ELSE IF agentSession = Null THEN "InvalidParams"
             ELSE "load"
        ELSE "MethodNotFound"

\* an endpoint that goes on when the resolver returns no session
EndpointOutcomeUnguarded(req) == RoutedOutcome(req)

\* what the code before the first loadTask does with request req
EndpointOutcome(req) ==
    IF hasResolver /\ AgentSessionOf(req) = Null THEN "unauthenticated"
    ELSE RoutedOutcome(req)

\* the session id the routed handler passes to the store
SessionIdOf(req) ==
    IF IsSubmitMethod(req.body.method)
    THEN resolveSessionId(AgentSessionOf(req), req.body.params)
    ELSE [v |-> AgentSessionOf(req).agentDid]

\* "done": the promise of endpoint's async function is fulfilled;
\* "rejected": it is rejected (an error left the catch block)
InProgress(r) == pc[r] \notin {"idle", "done", "rejected"}

\* endpoint's catch: next(normalizeError(error, requestBody?.id ?? null))
ForwardedError(req, code) ==
    [code |-> code, id |-> IF "id" \in DOMAIN req.body THEN req.body.id ELSE Null]

Endpoint(r) ==
    /\ ~InProgress(r)
    /\ \A q \in Req : q < r => InProgress(q)
    /\ serial => \A q \in Req : ~InProgress(q)
    /\ arrivals < Len(inbound)
    /\ arrivals' = arrivals + 1
    /\ \E req \in inbound[arrivals + 1] :
          LET outcome == EndpointOutcome(req)
          IN  /\ reqs' = [reqs EXCEPT ![r] = req]
              /\ pc' = [pc EXCEPT ![r] =
                      IF outcome = "TypeError" THEN "rejected"
                      ELSE IF outcome # "load" THEN "done"
                      ELSE IF IsSubmitMethod(req.body.method) THEN "loaded"
                      ELSE IF req.body.method = "tasks/get" THEN "getLoaded"
                      ELSE "cancelLoaded"]
              /\ loaded' = [loaded EXCEPT ![r] =
                      IF outcome = "load"
                      THEN loadTask(req.body.params.id, SessionIdOf(req)) ELSE Null]
              /\ forwarded' = [forwarded EXCEPT ![r] =
                      IF outcome \in {"load", "unauthenticated", "TypeError"} THEN << >>
                      ELSE << ForwardedError(req, outcome) >>]
    /\ currentData' = [currentData EXCEPT ![r] = Null]
    /\ saveFailed' = [saveFailed EXCEPT ![r] = FALSE]
    /\ handlerError' = [handlerError EXCEPT ![r] = ""]
    /\ lastEventWasFinal' = [lastEventWasFinal EXCEPT ![r] = FALSE]
    /\ returned' = [returned EXCEPT ![r] = << >>]
    /\ responses' = [responses EXCEPT ![r] = << >>]
    /\ events' = [events EXCEPT ![r] = << >>]
    /\ streamOpen' = [streamOpen EXCEPT ![r] = FALSE]
    /\ ended' = [ended EXCEPT ![r] = 0]
    /\ yielded' = [yielded EXCEPT ![r] = << >>]
    /\ pulls' = [pulls EXCEPT ![r] = 0]
    /\ saveLog' = [saveLog EXCEPT ![r] = << >>]
    /\ acked' = [acked EXCEPT ![r] = 0]
    /\ UNCHANGED << cfgVars, delivered, store, activeCancellations, now, counts >>

(***************************************************************************)
(* loadOrCreateTaskAndHistory after its loadTask has resumed.              *)
(***************************************************************************)
initialTask(taskId, sessionId, params, t) ==
    LET base == [id |-> taskId,
                 status |-> [state |-> "submitted", timestamp |-> t, message |-> Null],
                 artifacts |-> << >>]
        withSession == IF sessionId = Null THEN base
                       ELSE Spread(base, [sessionId |-> sessionId.v])
    IN  IF TruthyObject(params, "metadata")
        THEN Spread(withSession, [metadata |-> params.metadata])
        ELSE withSession

\* a resolver that starts every submission from a new task and history
ResolvedDataAfresh(data, taskId, sessionId, params, t) ==
    [task |-> initialTask(taskId, sessionId, params, t), history |-> << params.message >>]

\* the TaskAndHistory the resolver saves and returns, for clock reading t
ResolvedData(data, taskId, sessionId, params, t) ==
    IF data = Null
    THEN [task |-> initialTask(taskId, sessionId, params, t),
          history |-> << params.message >>]
    ELSE LET withMessage == [task |-> data.task,
                             history |-> Append(data.history, params.message)]
         IN  IF data.task.status.state \in finalStates
             THEN applyUpdateToTaskAndHistory(withMessage, resetUpdate, t)
             ELSE IF data.task.status.state = "input-required"
             THEN applyUpdateToTaskAndHistory(withMessage, workingUpdate, t)
             ELSE withMessage

ResolverReadsClock(data) ==
    \/ data = Null
    \/ data.task.status.state \in finalStates \cup {"input-required"}

LogSave(r, data, by) ==
    saveLog' = [saveLog EXCEPT ![r] = Append(@, [data |-> data, by |-> by])]

ResolveTask(r) ==
    /\ pc[r] = "loaded"
    /\ \E t \in (IF ResolverReadsClock(loaded[r]) THEN getCurrentTimestamp ELSE {now}) :
          LET data == ResolvedData(loaded[r], TaskIdOf(r), SessionIdOf(reqs[r]),
                                   reqs[r].body.params, t)
          IN  /\ now' = t
              /\ SaveCall(r, data)
              /\ LogSave(r, data, "resolver")
              /\ Counted(data, TRUE, Null)
              /\ currentData' = [currentData EXCEPT ![r] = data]
    /\ pc' = [pc EXCEPT ![r] = "resolving"]
    /\ UNCHANGED << cfgVars, arrivals, delivered, reqs, activeCancellations, loaded, handlerError,
                    lastEventWasFinal, returned, responses, events, streamOpen, ended,
                    forwarded, yielded, pulls, acked >>

(***************************************************************************)
(* handleTaskSend / handleTaskSendSubscribe once the resolver's save has   *)
(* resumed: the context is built, the stream is opened (streaming only)    *)
(* and the first generator.next() is issued.  When the save rejected, the   *)
(* store's error leaves the handler before its try block and reaches       *)
(* endpoint's catch.                                                       *)
(***************************************************************************)
StartHandler(r) ==
    /\ pc[r] = "resolving"
    /\ acked' = [acked EXCEPT ![r] = @ + 1]
    /\ IF saveFailed[r]
       THEN /\ Forward(r, "InternalError")
            /\ pc' = [pc EXCEPT ![r] = "done"]
            /\ UNCHANGED << streamOpen, pulls >>
       ELSE /\ pc' = [pc EXCEPT ![r] = "pulling"]
            /\ streamOpen' = [streamOpen EXCEPT ![r] = (Method(r) = "tasks/sendSubscribe")]
            /\ pulls' = [pulls EXCEPT ![r] = @ + 1]
            /\ UNCHANGED forwarded
    /\ UNCHANGED << cfgVars, arrivals, delivered, reqs, store, activeCancellations, now, loaded, currentData,
                    saveFailed, handlerError, lastEventWasFinal, returned, responses, events,
                    ended, yielded, saveLog, counts >>

(***************************************************************************)
(* The handler delivers a value: the body of the for-await loop up to      *)
(* `await this.taskStore.saveTask(currentData)`.  A handler that polls     *)
(* context.isCancelled() between two units of work does so in the          *)
(* continuation that ends with its next yield; the answer it got is kept   *)
(* with the value.                                                         *)
(***************************************************************************)
\* context.isCancelled() of the context built for request r
isCancelled(r) == TaskIdOf(r) \in activeCancellations

HandlerYieldFrom(r, current) ==
    /\ pc[r] = "pulling"
    /\ delivered < MaxYields
    /\ delivered' = delivered + 1
    /\ \E yieldValue \in taskHandler :
       \E t \in (IF isTaskStatusUpdate(yieldValue) THEN getCurrentTimestamp ELSE {now}) :
          LET data == applyUpdateToTaskAndHistory(current, yieldValue, t)
          IN  /\ now' = t
              /\ SaveCall(r, data)
              /\ LogSave(r, data, "loop")
              /\ Counted(data, FALSE, yieldValue)
              /\ currentData' = [currentData EXCEPT ![r] = data]
              /\ yielded' = [yielded EXCEPT ![r] =
                      Append(@, [value |-> yieldValue, at |-> t, cancelled |-> isCancelled(r)])]
    /\ pc' = [pc EXCEPT ![r] = "saving"]
    /\ UNCHANGED << cfgVars, arrivals, reqs, activeCancellations, loaded, handlerError,
                    lastEventWasFinal, returned, responses, events, streamOpen, ended,
                    forwarded, pulls, acked >>

\* a loop that applies every update to the task the resolver returned
HandlerYieldStale(r) == HandlerYieldFrom(r, saveLog[r][1].data)

HandlerYield(r) == HandlerYieldFrom(r, currentData[r])

\* tasks/send: the handler's sequence is done
SendReturnWith(r, task) ==
    /\ pc[r] = "pulling"
    /\ Method(r) = "tasks/send"
    /\ sendJsonResponse(r, task)
    /\ pc' = [pc EXCEPT ![r] = "done"]
    /\ UNCHANGED << cfgVars, arrivals, delivered, reqs, store, activeCancellations, now, loaded, currentData,
                    saveFailed, handlerError, lastEventWasFinal, events, streamOpen, ended,
                    forwarded, yielded, pulls, saveLog, acked, counts >>

\* a handler that answers with the task as the resolver returned it
SendReturnResolved(r) == SendReturnWith(r, saveLog[r][1].data.task)

SendReturn(r) == SendReturnWith(r, currentData[r].task)

(***************************************************************************)
(* The handler's sequence raises, or a save inside the try block rejects:  *)
(* the catch block of either handler up to its                             *)
(* `await this.taskStore.saveTask(currentData)`.                           *)
(***************************************************************************)
HandlerErrors == {"boom"}

\* catch (handlerError) with error text e: apply the failed status, save,
\* and wait for the save
CatchAndSave(r, e) ==
    /\ handlerError' = [handlerError EXCEPT ![r] = e]
    /\ \E t \in getCurrentTimestamp :
          LET data == applyUpdateToTaskAndHistory(currentData[r], failureStatusUpdate(e), t)
          IN  /\ now' = t
              /\ SaveCall(r, data)
              /\ LogSave(r, data, "failed")
              /\ Counted(data, FALSE, failureStatusUpdate(e))
              /\ currentData' = [currentData EXCEPT ![r] = data]
    /\ pc' = [pc EXCEPT ![r] = "failing"]

HandlerThrow(r) ==
    /\ pc[r] = "pulling"
    /\ \E e \in HandlerErrors : CatchAndSave(r, e)
    /\ UNCHANGED << cfgVars, arrivals, delivered, reqs, activeCancellations, loaded, lastEventWasFinal,
                    returned, responses, events, streamOpen, ended, forwarded, yielded,
                    pulls, acked >>

\* tasks/send: the loop's save has resumed; the next value is requested,
\* unless the save rejected: its error is caught like a handler error
SendSaved(r) ==
    /\ pc[r] = "saving"
    /\ Method(r) = "tasks/send"
    /\ acked' = [acked EXCEPT ![r] = @ + 1]
    /\ IF saveFailed[r]
       THEN /\ CatchAndSave(r, WriteError(r))
            /\ UNCHANGED pulls
       ELSE /\ pc' = [pc EXCEPT ![r] = "pulling"]
            /\ pulls' = [pulls EXCEPT ![r] = @ + 1]
            /\ UNCHANGED << store, now, currentData, saveFailed, handlerError, saveLog, counts >>
    /\ UNCHANGED << cfgVars, arrivals, delivered, reqs, activeCancellations, loaded,
                    lastEventWasFinal, returned, responses, events, streamOpen, ended,
                    forwarded, yielded >>

\* throw normalizeError(handlerError, req.id, taskId), forwarded by
\* endpoint's catch
ForwardThrown(r, e) ==
    forwarded' = [forwarded EXCEPT ![r] =
        Append(@, [code |-> "HandlerError", id |-> reqs[r].body.id, error |-> e])]

\* tasks/send: the save of the failed status has resumed, or has rejected
\* (the rejection is logged and dropped); the caught error is rethrown and
\* reaches endpoint's catch
SendFailSavedWith(r, e) ==
    /\ pc[r] = "failing"
    /\ Method(r) = "tasks/send"
    /\ ForwardThrown(r, e)
    /\ acked' = [acked EXCEPT ![r] = @ + 1]
    /\ pc' = [pc EXCEPT ![r] = "done"]
    /\ UNCHANGED << cfgVars, arrivals, delivered, reqs, store, activeCancellations, now, loaded, currentData,
                    saveFailed, handlerError, lastEventWasFinal, returned, responses, events,
                    streamOpen, ended, yielded, pulls, saveLog, counts >>

\* a catch block that lets the error of its own save escape
SendFailSavedMasking(r) ==
    SendFailSavedWith(r, IF saveFailed[r] THEN WriteError(r) ELSE handlerError[r])

SendFailSaved(r) == SendFailSavedWith(r, handlerError[r])

(***************************************************************************)
(* handleTaskSendSubscribe: event construction and the steps that follow   *)
(* each of its saves.                                                      *)
(***************************************************************************)
\* currentData.task.artifacts?.find(...) ?? yieldValue
updatedArtifact(task, yieldValue) ==
    LET Matches(a) ==
            \/ /\ "index" \in DOMAIN a
               /\ "index" \in DOMAIN yieldValue
               /\ a.index = yieldValue.index
            \/ /\ TruthyString(a, "name")
               /\ "name" \in DOMAIN yieldValue
               /\ a.name = yieldValue.name
        found == FindIndex({ i \in 1 .. Len(task.artifacts) : Matches(task.artifacts[i]) })
    IN  IF found >= 0 THEN task.artifacts[found + 1] ELSE yieldValue

\* the event built for a classified yield, from the updated task
EventFor(r, yieldValue) ==
    IF isTaskStatusUpdate(yieldValue)
    THEN createTaskStatusEvent(TaskIdOf(r), currentData[r].task.status,
             currentData[r].task.status.state \in streamFinalStates)
    ELSE createTaskArtifactEvent(TaskIdOf(r),
             updatedArtifact(currentData[r].task, yieldValue), FALSE)

\* sendEvent(createSuccessResponse(req.id, event))
sendEvent(r, event) ==
    events' = [events EXCEPT ![r] = Append(@, createSuccessResponse(reqs[r].body.id, event))]

\* a loop that goes on after a final event
BreaksLoopNever(event) == FALSE

\* if (isFinal) break;
BreaksLoop(event) == event.final

\* a handler without the finally block
EndStreamNever(r) == UNCHANGED ended

\* finally { if (!res.writableEnded) res.end(); }
EndStream(r) ==
    ended' = [ended EXCEPT ![r] = IF @ = 0 THEN 1 ELSE @]

\* the loop's save has resumed: classify the yield, write its event, then
\* break on a final status, request the next value otherwise; a save that
\* rejected is caught like a handler error
SubscribeSaved(r) ==
    /\ pc[r] = "saving"
    /\ Method(r) = "tasks/sendSubscribe"
    /\ acked' = [acked EXCEPT ![r] = @ + 1]
    /\ LET yieldValue == yielded[r][Len(yielded[r])].value
           event == EventFor(r, yieldValue)
       IN  IF saveFailed[r]
           THEN /\ CatchAndSave(r, WriteError(r))
                /\ UNCHANGED << lastEventWasFinal, events, ended, pulls >>
           ELSE IF ~isTaskStatusUpdate(yieldValue) /\ ~isArtifactUpdate(yieldValue)
           THEN /\ pc' = [pc EXCEPT ![r] = "pulling"]
                /\ pulls' = [pulls EXCEPT ![r] = @ + 1]
                /\ UNCHANGED << store, now, currentData, saveFailed, handlerError,
                                lastEventWasFinal, events, ended, saveLog, counts >>
           ELSE IF createSuccessResponseThrows(reqs[r].body.id)
           THEN /\ CatchAndSave(r, NullIdText)
                /\ UNCHANGED << lastEventWasFinal, events, ended, pulls >>
           ELSE /\ sendEvent(r, event)
                /\ lastEventWasFinal' = [lastEventWasFinal EXCEPT ![r] = event.final]
                /\ IF BreaksLoop(event)
                   THEN /\ EndStream(r)
                        /\ pc' = [pc EXCEPT ![r] = "done"]
                        /\ UNCHANGED pulls
                   ELSE /\ pc' = [pc EXCEPT ![r] = "pulling"]
                        /\ pulls' = [pulls EXCEPT ![r] = @ + 1]
                        /\ UNCHANGED ended
                /\ UNCHANGED << store, now, currentData, saveFailed, handlerError, saveLog, counts >>
    /\ UNCHANGED << cfgVars, arrivals, delivered, reqs, activeCancellations, loaded, returned, responses, streamOpen,
                    forwarded, yielded >>

\* write the final status event of the current status; a null request id
\* makes createSuccessResponse throw inside the try block
FinalEventOrCatch(r) ==
    IF createSuccessResponseThrows(reqs[r].body.id)
    THEN /\ CatchAndSave(r, NullIdText)
         /\ UNCHANGED << events, ended >>
    ELSE /\ sendEvent(r, createTaskStatusEvent(TaskIdOf(r), currentData[r].task.status, TRUE))
         /\ EndStream(r)
         /\ pc' = [pc EXCEPT ![r] = "done"]
         /\ UNCHANGED << store, now, currentData, saveFailed, handlerError, saveLog, counts >>

\* the handler's sequence is done
SubscribeReturn(r) ==
    /\ pc[r] = "pulling"
    /\ Method(r) = "tasks/sendSubscribe"
    /\ IF lastEventWasFinal[r]
       THEN /\ EndStream(r)
            /\ pc' = [pc EXCEPT ![r] = "done"]
            /\ UNCHANGED << store, now, currentData, saveFailed, handlerError, saveLog,
                            events, counts >>
       ELSE IF currentData[r].task.status.state \notin streamFinalStates
       THEN /\ \E t \in getCurrentTimestamp :
                  LET data == applyUpdateToTaskAndHistory(currentData[r], completedUpdate, t)
                  IN  /\ now' = t
                      /\ SaveCall(r, data)
                      /\ LogSave(r, data, "forced")
                      /\ Counted(data, FALSE, completedUpdate)
                      /\ currentData' = [currentData EXCEPT ![r] = data]
            /\ pc' = [pc EXCEPT ![r] = "forcing"]
            /\ UNCHANGED << handlerError, events, ended >>
       ELSE FinalEventOrCatch(r)
    /\ UNCHANGED << cfgVars, arrivals, delivered, reqs, activeCancellations, loaded, lastEventWasFinal,
                    returned, responses, streamOpen, forwarded, yielded, pulls, acked >>

\* the save of the forced completed status has resumed, or has rejected
SubscribeForceSaved(r) ==
    /\ pc[r] = "forcing"
    /\ acked' = [acked EXCEPT ![r] = @ + 1]
    /\ IF saveFailed[r]
       THEN /\ CatchAndSave(r, WriteError(r))
            /\ UNCHANGED << events, ended >>
       ELSE FinalEventOrCatch(r)
    /\ UNCHANGED << cfgVars, arrivals, delivered, reqs, activeCancellations, loaded, lastEventWasFinal,
                    returned, responses, streamOpen, forwarded, yielded, pulls >>

\* the save of the failed status has resumed, or has rejected (the
\* rejection is logged and dropped): the final event is written; when
\* createSuccessResponse throws here the error leaves the catch block, the
\* finally block ends the stream and endpoint's catch forwards the error
SubscribeFailSaved(r) ==
    /\ pc[r] = "failing"
    /\ Method(r) = "tasks/sendSubscribe"
    /\ acked' = [acked EXCEPT ![r] = @ + 1]
    /\ IF createSuccessResponseThrows(reqs[r].body.id)
       THEN /\ Forward(r, "InternalError")
            /\ UNCHANGED events
       ELSE /\ sendEvent(r, createTaskStatusEvent(TaskIdOf(r), currentData[r].task.status, TRUE))
            /\ UNCHANGED forwarded
    /\ EndStream(r)
    /\ pc' = [pc EXCEPT ![r] = "done"]
    /\ UNCHANGED << cfgVars, arrivals, delivered, reqs, store, activeCancellations, now, loaded, currentData,
                    saveFailed, handlerError, lastEventWasFinal, returned, responses, streamOpen,
                    yielded, pulls, saveLog, counts >>

(***************************************************************************)
(* handleTaskGet and handleTaskCancel after their loadTask has resumed.    *)
(***************************************************************************)
GetLoaded(r) ==
    /\ pc[r] = "getLoaded"
    /\ IF loaded[r] = Null
       THEN Forward(r, "TaskNotFound") /\ UNCHANGED << returned, responses >>
       ELSE sendJsonResponse(r, loaded[r].task) /\ UNCHANGED forwarded
    /\ pc' = [pc EXCEPT ![r] = "done"]
    /\ UNCHANGED << cfgVars, arrivals, delivered, reqs, store, activeCancellations, now, loaded, currentData,
                    saveFailed, handlerError, lastEventWasFinal, events, streamOpen, ended,
                    yielded, pulls, saveLog, acked, counts >>

CancelLoadedWith(r, notCancelable) ==
    /\ pc[r] = "cancelLoaded"
    /\ IF loaded[r] = Null
       THEN /\ Forward(r, "TaskNotFound")
            /\ pc' = [pc EXCEPT ![r] = "done"]
            /\ UNCHANGED << store, activeCancellations, now, currentData, saveFailed, returned,
                            responses, saveLog, counts >>
       ELSE IF loaded[r].task.status.state \in notCancelable
       THEN /\ sendJsonResponse(r, loaded[r].task)
            /\ pc' = [pc EXCEPT ![r] = "done"]
            /\ UNCHANGED << store, activeCancellations, now, currentData, saveFailed, forwarded,
                            saveLog, counts >>
       ELSE /\ activeCancellations' = activeCancellations \cup {TaskIdOf(r)}
            /\ \E t \in getCurrentTimestamp :
                  LET data == applyUpdateToTaskAndHistory(loaded[r], cancelUpdate, t)
                  IN  /\ now' = t
                      /\ SaveCall(r, data)
                      /\ LogSave(r, data, "cancel")
                      /\ Counted(data, FALSE, cancelUpdate)
                      /\ currentData' = [currentData EXCEPT ![r] = data]
            /\ pc' = [pc EXCEPT ![r] = "cancelSaving"]
            /\ UNCHANGED << returned, responses, forwarded >>
    /\ UNCHANGED << cfgVars, arrivals, delivered, reqs, loaded, handlerError, lastEventWasFinal, events,
                    streamOpen, ended, yielded, pulls, acked >>

\* a cancel that does not look at the state of the task
CancelLoadedAlways(r) == CancelLoadedWith(r, {})

CancelLoaded(r) == CancelLoadedWith(r, finalStates)

\* the save of the canceled status has resumed; when it rejected, the
\* store's error leaves handleTaskCancel at the await
CancelSaved(r) ==
    /\ pc[r] = "cancelSaving"
    /\ IF saveFailed[r]
       THEN /\ Forward(r, "InternalError")
            /\ UNCHANGED << activeCancellations, returned, responses >>
       ELSE /\ activeCancellations' = activeCancellations \ {TaskIdOf(r)}
            /\ sendJsonResponse(r, currentData[r].task)
            /\ UNCHANGED forwarded
    /\ acked' = [acked EXCEPT ![r] = @ + 1]
    /\ pc' = [pc EXCEPT ![r] = "done"]
    /\ UNCHANGED << cfgVars, arrivals, delivered, reqs, store, now, loaded, currentData, saveFailed,
                    handlerError, lastEventWasFinal, events, streamOpen, ended, yielded,
                    pulls, saveLog, counts >>

(***************************************************************************)
(* Requests, handlers and initial states.                                  *)
(***************************************************************************)
UserMessage(n) == [role |-> "user", parts |-> << TextPart("hi" \o ToString(n)) >>]

Working == [state |-> "working"]

Completed == [state |-> "completed"]

InputRequired == [state |-> "input-required", message |-> AgentMessage("which file?")]

OutTxt == [name |-> "out.txt", parts |-> << TextPart("done") >>]

Unrecognized == [note |-> "not an update"]

AgentDid == "did:web:example.com:a"

\* the n-th request received: a JSON-RPC body for task t1 and the session
\* the resolver finds for it
Request(n, method, id, auth) ==
    [body |-> [jsonrpc |-> "2.0", method |-> method, id |-> id,
               params |-> IF IsSubmitMethod(method)
                          THEN [id |-> "t1", message |-> UserMessage(n)]
                          ELSE [id |-> "t1"]],
     auth |-> auth]

Methods == {"tasks/send", "tasks/sendSubscribe", "tasks/get", "tasks/cancel"}

RequestIds == {Null, [num |-> 1]}

Requests(methods, ids, auths) ==
    [n \in 1 .. MaxRequests |->
        { Request(n, m, i, a) : m \in methods, i \in ids, a \in auths }]

NoRequest == Request(0, "tasks/get", Null, Null)

InitService ==
    /\ arrivals = 0
    /\ delivered = 0
    /\ reqs = [r \in Req |-> NoRequest]
    /\ pc = [r \in Req |-> "idle"]
    /\ store = << >>
    /\ activeCancellations = {}
    /\ now = 0
    /\ loaded = [r \in Req |-> Null]
    /\ currentData = [r \in Req |-> Null]
    /\ saveFailed = [r \in Req |-> FALSE]
    /\ handlerError = [r \in Req |-> ""]
    /\ lastEventWasFinal = [r \in Req |-> FALSE]
    /\ returned = [r \in Req |-> << >>]
    /\ responses = [r \in Req |-> << >>]
    /\ events = [r \in Req |-> << >>]
    /\ streamOpen = [r \in Req |-> FALSE]
    /\ ended = [r \in Req |-> 0]
    /\ forwarded = [r \in Req |-> << >>]
    /\ yielded = [r \in Req |-> << >>]
    /\ pulls = [r \in Req |-> 0]
    /\ saveLog = [r \in Req |-> << >>]
    /\ acked = [r \in Req |-> 0]
    /\ counts = << >>

\* concurrent requests of one authenticated agent on task t1
Init ==
    /\ InitService
    /\ taskHandler = {Working, Completed, OutTxt}
    /\ hasResolver = TRUE
    /\ serial = FALSE
    /\ storeFaulty = FALSE
    /\ inbound = Requests(Methods, {[num |-> 1]}, {[agentDid |-> AgentDid]})

Next ==
    \E r \in Req :
        \/ Endpoint(r)
        \/ ResolveTask(r)
        \/ StartHandler(r)
        \/ HandlerYield(r)
        \/ HandlerThrow(r)
        \/ SendSaved(r)
        \/ SendReturn(r)
        \/ SendFailSaved(r)
        \/ SubscribeSaved(r)
        \/ SubscribeReturn(r)
        \/ SubscribeForceSaved(r)
        \/ SubscribeFailSaved(r)
        \/ GetLoaded(r)
        \/ CancelLoaded(r)
        \/ CancelSaved(r)

Spec == Init /\ [][Next]_vars

\* the same service with a client that waits for each request to finish
\* before it sends the next one, and a handler that may yield any value
InitSerial ==
    /\ InitService
    /\ taskHandler = {Working, InputRequired, Completed, OutTxt, Unrecognized}
    /\ hasResolver = TRUE
    /\ serial = TRUE
    /\ storeFaulty = FALSE
    /\ inbound = Requests(Methods, RequestIds, {[agentDid |-> AgentDid]})

SpecSerial == InitSerial /\ [][Next]_vars

(***************************************************************************)
(* Any deployment and any client: the service with or without a session    *)
(* resolver, over a store whose saves may or may not reject, receiving     *)
(* well-formed requests, requests of callers the resolver turns away,      *)
(* malformed envelopes and malformed parameters.                           *)
(***************************************************************************)
Without(rec, field) == [k \in DOMAIN rec \ {field} |-> rec[k]]

\* req.body when no body parser has filled it in is undefined (Null here)
MalformedEnvelopes(n) ==
    LET body == Request(n, "tasks/send", [num |-> 1], Null).body
    IN  { Null,
          [prim |-> "text"],
          Spread(body, [jsonrpc |-> "1.0"]),
          Without(body, "method"),
          Without(body, "id"),
          Spread(body, [id |-> [bool |-> TRUE]]),
          Spread(body, [params |-> [prim |-> 5]]) }

UnknownMethods == {"tasks/resubscribe"}

\* params that validateTaskSendParams or resolveSessionId may refuse
MalformedParams(n) ==
    { Null,
      [message |-> UserMessage(n)],
      [id |-> "", message |-> UserMessage(n)],
      [id |-> "t1"],
      [id |-> "t1", message |-> [role |-> "user"]],
      [id |-> "t1", message |-> UserMessage(n), sessionId |-> AgentDid] }

MalformedSubmissions(n) ==
    { Spread(Request(n, m, i, Null).body, [params |-> p]) :
          m \in {"tasks/send", "tasks/sendSubscribe"}, i \in RequestIds, p \in MalformedParams(n) }
    \cup { Without(Request(n, m, [num |-> 1], Null).body, "params") :
               m \in {"tasks/send", "tasks/sendSubscribe"} }

\* a submission that names a session of the caller's own choosing
LabelledSubmissions(n) ==
    LET body == Request(n, "tasks/send", [num |-> 1], Null).body
    IN  { Spread(body, [params |-> Spread(body.params, [sessionId |-> "s1"])]) }

AnyBodies(n) ==
    { Request(n, m, [num |-> 1], Null).body : m \in Methods \cup UnknownMethods }
    \cup MalformedEnvelopes(n) \cup MalformedSubmissions(n) \cup LabelledSubmissions(n)

AnyRequests ==
    [n \in 1 .. MaxRequests |->
        { [body |-> b, auth |-> a] : b \in AnyBodies(n), a \in {Null, [agentDid |-> AgentDid]} }]

InitAny ==
    /\ InitService
    /\ taskHandler = {Working, Completed}
    /\ hasResolver \in BOOLEAN
    /\ serial = TRUE
    /\ storeFaulty \in BOOLEAN
    /\ inbound = AnyRequests

SpecAny == InitAny /\ [][Next]_vars

(***************************************************************************)
(* Two agents and two task ids: the agents' identifiers are did:web        *)
(* identifiers of one host, the one with a path and the other without,     *)
(* and a task id is any non-empty string.                                  *)
(***************************************************************************)
HostDid == "did:web:example.com"

\* the request Request(n, ...) naming task taskId
RequestFor(n, method, id, auth, taskId) ==
    LET req == Request(n, method, id, auth)
    IN  [req EXCEPT !.body.params.id = taskId]

TaskIds == {"t1", "a:t1"}

TenantRequests ==
    [n \in 1 .. MaxRequests |->
        { RequestFor(n, m, [num |-> 1], [agentDid |-> d], t) :
              m \in Methods, d \in {AgentDid, HostDid}, t \in TaskIds }]

InitTenants ==
    /\ InitService
    /\ taskHandler = {Working, Completed}
    /\ hasResolver = TRUE
    /\ serial = TRUE
    /\ storeFaulty = FALSE
    /\ inbound = TenantRequests

SpecTenants == InitTenants /\ [][Next]_vars

(***************************************************************************)
(* Two agents that use the same task id, each in its own session: the      *)
(* first agent creates its task t1; the second agent then submits its own  *)
(* task t1, and while that request runs a tasks/get or tasks/cancel for    *)
(* t1 arrives from either agent.                                           *)
(***************************************************************************)
MaxSessionRequests == 3

SessionRequests ==
    [n \in 1 .. MaxSessionRequests |->
        IF n = 1
        THEN { RequestFor(n, "tasks/send", [num |-> 1], [agentDid |-> HostDid], "t1") }
        ELSE IF n = 2
        THEN { RequestFor(n, m, [num |-> 1], [agentDid |-> AgentDid], "t1") :
                   m \in {"tasks/send", "tasks/sendSubscribe"} }
        ELSE { RequestFor(n, m, [num |-> 1], [agentDid |-> d], "t1") :
                   m \in {"tasks/get", "tasks/cancel"}, d \in {AgentDid, HostDid} }]

InitSessions ==
    /\ InitService
    /\ taskHandler = {Working}
    /\ hasResolver = TRUE
    /\ serial = FALSE
    /\ storeFaulty = FALSE
    /\ inbound = SessionRequests

SpecSessions == InitSessions /\ [][Next]_vars

(***************************************************************************)
(* A handler that addresses its artifacts by index or by name and sends    *)
(* them in any order, again or as a chunk to be appended, and that puts a  *)
(* timestamp of its own into a status update.                              *)
(***************************************************************************)
IndexedArtifact(i) == [index |-> i, parts |-> << TextPart("part" \o ToString(i)) >>]

IndexedChunk(i) == [index |-> i, append |-> TRUE, parts |-> << TextPart("more") >>]

\* a chunk for the artifact named like OutTxt, with metadata of its own
NamedChunk ==
    [name |-> "out.txt", append |-> TRUE, parts |-> << TextPart("more") >>,
     metadata |-> [chunk |-> "2"]]

HandlerClock == 99

Stamped == [state |-> "working", timestamp |-> HandlerClock]

InitUpdates ==
    /\ InitService
    /\ taskHandler = {IndexedArtifact(1), IndexedArtifact(2), IndexedChunk(1), OutTxt,
                      NamedChunk, Stamped}
    /\ hasResolver = TRUE
    /\ serial = TRUE
    /\ storeFaulty = FALSE
    /\ inbound = Requests(Methods, {[num |-> 1]}, {[agentDid |-> AgentDid]})

SpecUpdates == InitUpdates /\ [][Next]_vars

(***************************************************************************)
(* Definitions used to state the properties.                               *)
(***************************************************************************)
IsPrefix(s, t) == Len(s) <= Len(t) /\ SubSeq(t, 1, Len(s)) = s

Range(s) == { s[i] : i \in 1 .. Len(s) }

\* the yielded updates applied in order, each with the clock value read
\* when it was applied
RECURSIVE ApplyAll(_, _)
ApplyAll(data, ys) ==
    IF ys = << >> THEN data
    ELSE ApplyAll(applyUpdateToTaskAndHistory(data, ys[1].value, ys[1].at),
                  SubSeq(ys, 2, Len(ys)))

IsLoopSave(entry) == entry.by = "loop"

LoopSaves(r) == SelectSeq(saveLog[r], IsLoopSave)

YieldedValues(r) == [i \in 1 .. Len(yielded[r]) |-> yielded[r][i].value]

IsClassified(value) == isTaskStatusUpdate(value) \/ isArtifactUpdate(value)

FinalEvents(r) == { i \in 1 .. Len(events[r]) : events[r][i].result.final }

Quiescent == \A r \in Req : ~InProgress(r)

(***************************************************************************)
(* C1: every stream that was opened carries, once the request is over,     *)
(* exactly one event with final = true, and it is the last event written   *)
(* before the stream is closed, for every request id the envelope          *)
(* validation accepts.                                                     *)
(***************************************************************************)
C1_ExactlyOneFinalEvent ==
    \A r \in Req :
        streamOpen[r] =>
            /\ Cardinality(FinalEvents(r)) <= 1
            /\ FinalEvents(r) # {} => Len(events[r]) \in FinalEvents(r)
            /\ pc[r] = "done" => Cardinality(FinalEvents(r)) = 1 /\ ended[r] = 1

(***************************************************************************)
(* C2: a tasks/send request that got past the dispatcher produces exactly  *)
(* one JSON-RPC response: the success result carrying the task when the    *)
(* sequence completes, an error (forwarded to the error handler)           *)
(* otherwise; never none and never two.                                    *)
(***************************************************************************)
C2_ExactlyOneResponse ==
    \A r \in Req :
        (Method(r) = "tasks/send" /\ pc[r] = "done" /\ isValidJsonRpcRequest(reqs[r].body)) =>
            /\ Len(responses[r]) + Len(forwarded[r]) = 1
            /\ returned[r] # << >> =>
                   responses[r] = << createSuccessResponse(reqs[r].body.id, returned[r][1]) >>

(***************************************************************************)
(* C3: once the stored state of a task is completed, failed or canceled,   *)
(* its stored status changes only by the lifecycle resolver resetting it   *)
(* to submitted for a new submission; no update of a handler's sequence    *)
(* changes it.                                                             *)
(***************************************************************************)
C3_TerminalStatusFrozen ==
    [][ \A k \in DOMAIN store :
            (store[k].task.status.state \in finalStates
                /\ store'[k].task.status # store[k].task.status) =>
            /\ store'[k].task.status.state = "submitted"
            /\ \E r \in Req : pc[r] = "loaded" /\ pc'[r] = "resolving" ]_vars

(***************************************************************************)
(* C4: under any interleaving of requests on a task, every save leaves the *)
(* messages already in the stored history in place: the history stored     *)
(* before a step is a prefix of the history stored after it.               *)
(***************************************************************************)
C4_HistoryOnlyGrows ==
    [][ \A k \in DOMAIN store : IsPrefix(store[k].history, store'[k].history) ]_vars

(***************************************************************************)
(* C5: with the in-memory store no persisted update is lost: when the      *)
(* requests have finished, every message that some request saved in the    *)
(* task's history is in the stored history.                                *)
(***************************************************************************)
C5_NoLostUpdate ==
    Quiescent =>
        \A r \in Req : \A i \in 1 .. Len(saveLog[r]) :
            LET saved == saveLog[r][i].data
                key == createTaskKey(saved.task.id, TaskSession(saved.task))
            IN  Range(saved.history) \subseteq Range(store[key].history)

(***************************************************************************)
(* C6: within one handler invocation the updates are applied and saved in  *)
(* the order yielded: the k-th save of the loop holds the task returned by *)
(* the resolver with exactly the first k yielded updates applied, and the  *)
(* next value is requested only after the previous save has completed.     *)
(***************************************************************************)
C6_OrderedApplyAndPersist ==
    \A r \in Req :
        (IsSubmit(r) /\ saveLog[r] # << >>) =>
            /\ saveLog[r][1].by = "resolver"
            /\ Len(LoopSaves(r)) = Len(yielded[r])
            /\ \A k \in 1 .. Len(yielded[r]) :
                   LoopSaves(r)[k].data =
                       ApplyAll(saveLog[r][1].data, SubSeq(yielded[r], 1, k))
            /\ Len(yielded[r]) <= pulls[r]
            /\ pulls[r] <= acked[r]
            /\ pulls[r] <= Len(yielded[r]) + 1

C6_Witness ==
    \E r \in Req :
        /\ IsSubmit(r)
        /\ Len(LoopSaves(r)) = 3
        /\ acked[r] = 4
        /\ pulls[r] = 4
        /\ LoopSaves(r)[3].data.task.status.state # saveLog[r][1].data.task.status.state

(***************************************************************************)
(* C7: the status timestamp stored for a task never decreases from one     *)
(* save to the next, under every interleaving of requests on the task.     *)
(***************************************************************************)
C7_TimestampMonotone ==
    [][ \A k \in DOMAIN store :
            store'[k].task.status.timestamp >= store[k].task.status.timestamp ]_vars

(***************************************************************************)
(* C8: when the handler's sequence completes, the result tasks/send hands  *)
(* back is the task returned by the resolver with all yielded updates      *)
(* applied in order; it is the task the request saved last, it is a task   *)
(* without the history, and the response written carries it.               *)
(***************************************************************************)
C8_SendResultIsFoldedTask ==
    \A r \in Req :
        (Method(r) = "tasks/send" /\ returned[r] # << >>) =>
            /\ pc[r] = "done"
            /\ Len(returned[r]) = 1
            /\ returned[r][1] = ApplyAll(saveLog[r][1].data, yielded[r]).task
            /\ returned[r][1] = saveLog[r][Len(saveLog[r])].data.task
            /\ "history" \notin DOMAIN returned[r][1]
            /\ \A i \in 1 .. Len(responses[r]) :
                   responses[r][i] = createSuccessResponse(reqs[r].body.id, returned[r][1])

C8_Witness ==
    \E r \in Req :
        /\ Method(r) = "tasks/send"
        /\ YieldedValues(r) = << Working, OutTxt, Completed >>
        /\ Len(responses[r]) = 1
        /\ responses[r][1].result.status.state = "completed"
        /\ responses[r][1].result.artifacts = << OutTxt >>

(***************************************************************************)
(* C9: tasks/sendSubscribe writes exactly one event per yielded status or  *)
(* artifact update, in yield order, the event of a status update being     *)
(* final exactly when its state ends the stream; the sequence working,     *)
(* artifact, completed gives exactly 3 events, only the last one final,    *)
(* and the stream is closed after it.                                      *)
(***************************************************************************)
C9_OneEventPerUpdate ==
    \A r \in Req :
        (Method(r) = "tasks/sendSubscribe" /\ streamOpen[r] /\ pc[r] \in {"pulling", "done"}) =>
            LET classified == SelectSeq(YieldedValues(r), IsClassified)
            IN  /\ Len(events[r]) >= Len(classified)
                /\ \A i \in 1 .. Len(classified) :
                       /\ isTaskStatusUpdate(classified[i]) <=> "status" \in DOMAIN events[r][i].result
                       /\ events[r][i].result.final =
                              (/\ isTaskStatusUpdate(classified[i])
                               /\ classified[i].state \in streamFinalStates)
                /\ (pc[r] = "done" /\ YieldedValues(r) = << Working, OutTxt, Completed >>) =>
                       /\ Len(events[r]) = 3
                       /\ FinalEvents(r) = {3}
                       /\ ended[r] = 1

(***************************************************************************)
(* C10: tasks/cancel on a task whose stored state is completed, failed or  *)
(* canceled hands back the task as loaded from the store, saves nothing,   *)
(* leaves the store as it is and does not touch the cancellation registry. *)
(***************************************************************************)
C10_CancelTerminalIsNoOp ==
    [][ \A r \in Req :
            (/\ pc[r] = "cancelLoaded"
             /\ pc'[r] # "cancelLoaded"
             /\ loaded[r] # Null
             /\ loaded[r].task.status.state \in {"completed", "failed", "canceled"}) =>
            /\ pc'[r] = "done"
            /\ returned'[r] = << loaded[r].task >>
            /\ responses'[r] \in {<< >>, << createSuccessResponse(reqs[r].body.id, loaded[r].task) >>}
            /\ saveLog'[r] = << >>
            /\ store' = store
            /\ activeCancellations' = activeCancellations ]_vars

C10_Witness ==
    \E r \in Req :
        /\ Method(r) = "tasks/cancel"
        /\ pc[r] = "done"
        /\ saveLog[r] = << >>
        /\ Len(responses[r]) = 1
        /\ responses[r][1].result.status.state = "completed"
        /\ responses[r][1].result = store[createTaskKey("t1", [v |-> AgentDid])].task

(***************************************************************************)
(* Definitions used to state the properties of the dispatcher.             *)
(***************************************************************************)
\* the request in slot r was received and the resolver, if any, let it in
Admitted(r) == pc[r] # "idle" /\ ~(hasResolver /\ reqs[r].auth = Null)

\* an admitted request with a valid envelope that names the method
IsCall(r, methods) ==
    /\ Admitted(r)
    /\ isValidJsonRpcRequest(reqs[r].body)
    /\ reqs[r].body.method \in methods

NamesTask(r) ==
    /\ isObject(ParamsOf(reqs[r].body))
    /\ TruthyString(ParamsOf(reqs[r].body), "id")

StoredTaskIds == { store[k].task.id : k \in DOMAIN store }

ErrorCodes(r) == [i \in 1 .. Len(forwarded[r]) |-> forwarded[r][i].code]

(***************************************************************************)
(* C11: a tasks/get request for a task id of which the store holds no      *)
(* record ends with the error TaskNotFound and with no success result,     *)
(* whether or not the service has a session resolver.                      *)
(***************************************************************************)
C11_GetUnknownIsTaskNotFound ==
    \A r \in Req :
        (/\ IsCall(r, {"tasks/get"})
         /\ NamesTask(r)
         /\ pc[r] = "done"
         /\ reqs[r].body.params.id \notin StoredTaskIds) =>
            /\ ErrorCodes(r) = << "TaskNotFound" >>
            /\ returned[r] = << >>
            /\ responses[r] = << >>

(***************************************************************************)
(* C12: tasks/cancel on a stored task whose state is submitted, working or *)
(* input-required first adds the task id to the cancellation registry,     *)
(* applies the canceled status with the fixed agent message (appended to   *)
(* the history) and saves; when the save has completed it removes the id   *)
(* from the registry and returns the updated task; at that moment, the end *)
(* of the request, the stored state is canceled.                           *)
(***************************************************************************)
C12_CancelSteps ==
    [][ \A r \in Req :
            /\ (/\ pc[r] = "cancelLoaded"
                /\ pc'[r] # "cancelLoaded"
                /\ loaded[r] # Null
                /\ loaded[r].task.status.state \in {"submitted", "working", "input-required"}) =>
                   LET key == createTaskKey(TaskIdOf(r), SessionIdOf(reqs[r]))
                       message == AgentMessage("Task cancelled by request.")
                   IN  /\ pc'[r] = "cancelSaving"
                       /\ TaskIdOf(r) \in activeCancellations'
                       /\ Len(saveLog'[r]) = 1
                       /\ saveLog'[r][1].data.task.status.state = "canceled"
                       /\ saveLog'[r][1].data.task.status.message = message
                       /\ saveLog'[r][1].data.history = Append(loaded[r].history, message)
                       /\ store'[key] = saveLog'[r][1].data
                       /\ returned'[r] = << >>
            /\ (pc[r] = "cancelSaving" /\ pc'[r] # "cancelSaving") =>
                   LET key == createTaskKey(TaskIdOf(r), SessionIdOf(reqs[r]))
                   IN  /\ pc'[r] = "done"
                       /\ TaskIdOf(r) \notin activeCancellations'
                       /\ returned'[r] = << saveLog[r][1].data.task >>
                       /\ store'[key].task.status.state = "canceled" ]_vars

(***************************************************************************)
(* C13: when tasks/send or tasks/sendSubscribe is submitted to an existing *)
(* task that the resolver loaded in state completed, failed or canceled,   *)
(* the resolver saves, before the handler is asked for anything, the task  *)
(* with state submitted and status.message null, and a history made of the *)
(* messages of the loaded history in their order followed by the new user  *)
(* message; the handler starts from that task.                             *)
(***************************************************************************)
C13_ResubmitResetsKeepingHistory ==
    [][ \A r \in Req :
            (/\ pc[r] = "loaded"
             /\ pc'[r] # "loaded"
             /\ loaded[r] # Null
             /\ loaded[r].task.status.state \in {"completed", "failed", "canceled"}) =>
                LET key == createTaskKey(TaskIdOf(r), SessionIdOf(reqs[r]))
                    saved == saveLog'[r][1].data
                IN  /\ Len(saveLog'[r]) = 1
                    /\ saved.task.status.state = "submitted"
                    /\ saved.task.status.message = Null
                    /\ saved.history = loaded[r].history \o << reqs[r].body.params.message >>
                    /\ store'[key] = saved
                    /\ currentData'[r] = saved
                    /\ pulls'[r] = 0
                    /\ yielded'[r] = << >> ]_vars

C13_Witness ==
    \E r \in Req :
        /\ IsSubmit(r)
        /\ pc[r] = "resolving"
        /\ loaded[r] # Null
        /\ loaded[r].task.status.state = "failed"
        /\ loaded[r].task.status.message # Null
        /\ Len(loaded[r].history) >= 2
        /\ currentData[r].task.status.state = "submitted"
        /\ Len(currentData[r].history) = Len(loaded[r].history) + 1

(***************************************************************************)
(* C14: when a submission reaches an existing task that the resolver       *)
(* loaded in state input-required, the resolver saves, before the handler  *)
(* is asked for anything, the task with state working, the same artifacts, *)
(* and the loaded history followed by the new user message.                *)
(***************************************************************************)
C14_InputRequiredResumes ==
    [][ \A r \in Req :
            (/\ pc[r] = "loaded"
             /\ pc'[r] # "loaded"
             /\ loaded[r] # Null
             /\ loaded[r].task.status.state = "input-required") =>
                LET key == createTaskKey(TaskIdOf(r), SessionIdOf(reqs[r]))
                    saved == saveLog'[r][1].data
                IN  /\ Len(saveLog'[r]) = 1
                    /\ saved.task.status.state = "working"
                    /\ saved.task.artifacts = loaded[r].task.artifacts
                    /\ saved.history = loaded[r].history \o << reqs[r].body.params.message >>
                    /\ store'[key] = saved
                    /\ currentData'[r] = saved
                    /\ pulls'[r] = 0
                    /\ yielded'[r] = << >> ]_vars

C14_Witness ==
    \E r \in Req :
        /\ IsSubmit(r)
        /\ pc[r] = "resolving"
        /\ loaded[r] # Null
        /\ loaded[r].task.status.state = "input-required"
        /\ loaded[r].task.artifacts = << OutTxt >>
        /\ Len(loaded[r].history) >= 2
        /\ currentData[r].task.status.state = "working"
        /\ currentData[r].task.artifacts = << OutTxt >>

(***************************************************************************)
(* C15: with the requests on a task processed one after another, the       *)
(* length of the stored history is, after every step, the number of        *)
(* submissions the resolver has accepted for the task (one user message    *)
(* each) plus the number of agent messages carried by the status updates   *)
(* applied to it, and no step makes the stored history shorter.            *)
(***************************************************************************)
C15_HistoryLengthCounts ==
    [][ /\ \A k \in DOMAIN store' :
              Len(store'[k].history) = counts'[k].submissions + counts'[k].agentMessages
        /\ \A k \in DOMAIN store :
              Len(store'[k].history) >= Len(store[k].history) ]_vars

C15_Witness ==
    /\ serial
    /\ Quiescent
    /\ \E k \in DOMAIN store :
          /\ counts[k].submissions = 2
          /\ counts[k].agentMessages = 2
          /\ Len(store[k].history) = 4
          /\ store[k].history[1].role = "user"
          /\ store[k].history[2].role = "agent"
          /\ store[k].history[3].role = "user"

(***************************************************************************)
(* C16: when the handler's sequence raises an error during tasks/send, the *)
(* failed status whose agent message embeds the error text is applied and  *)
(* its save is attempted before any error is forwarded for the request;    *)
(* the one error forwarded is the error the handler raised, also when that *)
(* save was rejected by the store.                                         *)
(***************************************************************************)
\* the catch block was entered while a value of the handler was awaited
HandlerRaised(r) ==
    /\ saveLog[r] # << >>
    /\ saveLog[r][Len(saveLog[r])].by = "failed"
    /\ pulls[r] = Len(yielded[r]) + 1

C16_FailedCommitThenOriginalError ==
    \A r \in Req :
        (IsCall(r, {"tasks/send"}) /\ pc[r] \in {"failing", "done"}) =>
            /\ forwarded[r] # << >> =>
                   /\ pc[r] = "done"
                   /\ Len(forwarded[r]) = 1
                   /\ returned[r] = << >>
            /\ HandlerRaised(r) =>
                   \E e \in HandlerErrors :
                       LET message == AgentMessage("Handler failed: " \o e)
                           last == saveLog[r][Len(saveLog[r])].data
                       IN  /\ last.task.status.state = "failed"
                           /\ last.task.status.message = message
                           /\ last.history[Len(last.history)] = message
                           /\ pc[r] = "done" =>
                                  forwarded[r] = << [code |-> "HandlerError",
                                                     id |-> reqs[r].body.id,
                                                     error |-> e] >>

C16_Witness ==
    \E r \in Req :
        /\ IsCall(r, {"tasks/send"})
        /\ pc[r] = "done"
        /\ HandlerRaised(r)
        /\ saveFailed[r]
        /\ Len(saveLog[r]) = 3
        /\ forwarded[r][1].error = "boom"
        /\ \A k \in DOMAIN store : store[k].task.status.state # "failed"

(***************************************************************************)
(* C17: when the handler's sequence raises an error during                 *)
(* tasks/sendSubscribe, the failed status is applied and saved, the last   *)
(* event of the stream is a status event with state failed and final =     *)
(* true, it is the only final event, and no error is forwarded to the      *)
(* error handler for the request, whatever request id the envelope         *)
(* validation accepted.                                                    *)
(***************************************************************************)
C17_StreamAbsorbsHandlerError ==
    \A r \in Req :
        (/\ IsCall(r, {"tasks/sendSubscribe"})
         /\ pc[r] = "done"
         /\ handlerError[r] \in HandlerErrors) =>
            LET last == saveLog[r][Len(saveLog[r])]
                key == createTaskKey(TaskIdOf(r), SessionIdOf(reqs[r]))
            IN  /\ last.by = "failed"
                /\ last.data.task.status.state = "failed"
                /\ store[key] = last.data
                /\ events[r] # << >>
                /\ events[r][Len(events[r])].result.status.state = "failed"
                /\ FinalEvents(r) = {Len(events[r])}
                /\ ended[r] = 1
                /\ forwarded[r] = << >>

(***************************************************************************)
(* C18: a request that the validation of the envelope refuses ends with    *)
(* the error InvalidRequest, and a request with a valid envelope whose     *)
(* method is none of the four task methods ends with MethodNotFound; for   *)
(* both the handler is never asked for a value, nothing is loaded from or  *)
(* saved to the store, and no result or event is written.                  *)
(***************************************************************************)
NothingDone(r) ==
    /\ pulls[r] = 0
    /\ loaded[r] = Null
    /\ saveLog[r] = << >>
    /\ returned[r] = << >>
    /\ events[r] = << >>

C18_EnvelopeRejected ==
    \A r \in Req :
        Admitted(r) =>
            /\ ~isValidJsonRpcRequest(reqs[r].body) =>
                   /\ pc[r] = "done"
                   /\ ErrorCodes(r) = << "InvalidRequest" >>
                   /\ NothingDone(r)
            /\ (isValidJsonRpcRequest(reqs[r].body) /\ reqs[r].body.method \notin Methods) =>
                   /\ pc[r] = "done"
                   /\ ErrorCodes(r) = << "MethodNotFound" >>
                   /\ NothingDone(r)

(***************************************************************************)
(* C19: when the service has a session resolver and the resolver returns   *)
(* no session for a request, the request ends there: whatever its body,    *)
(* no error is forwarded, nothing is loaded or saved, the store and the    *)
(* cancellation registry are unchanged, the handler is not asked for       *)
(* anything and no result or event is written.                             *)
(***************************************************************************)
\* this step is the arrival of a request, which takes slot r
Receives(r) ==
    /\ arrivals' = arrivals + 1
    /\ ~InProgress(r)
    /\ \A q \in Req : q < r => InProgress(q)

C19_UnauthenticatedShortCircuit ==
    [][ \A r \in Req :
            (Receives(r) /\ hasResolver /\ reqs'[r].auth = Null) =>
                /\ pc'[r] = "done"
                /\ forwarded'[r] = << >>
                /\ responses'[r] = << >>
                /\ ~streamOpen'[r]
                /\ NothingDone(r)'
                /\ store' = store
                /\ activeCancellations' = activeCancellations
                /\ counts' = counts ]_vars

C19_Witness ==
    \E r \in Req :
        /\ hasResolver
        /\ pc[r] = "done"
        /\ reqs[r].auth = Null
        /\ ~isValidJsonRpcRequest(reqs[r].body)
        /\ forwarded[r] = << >>
        /\ arrivals = 2
        /\ store # << >>

(***************************************************************************)
(* C20: a tasks/send or tasks/sendSubscribe request whose params are       *)
(* missing, have no id or an empty id, have no message or a message        *)
(* without parts, or, from a caller without session, carry a sessionId     *)
(* that starts with "did:", ends at once: the store and the cancellation   *)
(* registry are unchanged, the handler is not asked for anything, nothing  *)
(* is loaded or saved, and exactly one error is forwarded, carrying the id *)
(* of the request.                                                         *)
(***************************************************************************)
BadSubmitParams(req) ==
    LET params == ParamsOf(req.body)
    IN  \/ params = Null
        \/ "id" \notin DOMAIN params
        \/ params.id = ""
        \/ "message" \notin DOMAIN params
        \/ "parts" \notin DOMAIN params.message
        \/ /\ AgentSessionOf(req) = Null
           /\ "sessionId" \in DOMAIN params
           /\ Len(params.sessionId) >= 4
           /\ SubSeq(params.sessionId, 1, 4) = "did:"

C20_BadParamsChangeNothing ==
    [][ \A r \in Req :
            (/\ Receives(r)
             /\ ~(hasResolver /\ reqs'[r].auth = Null)
             /\ isValidJsonRpcRequest(reqs'[r].body)
             /\ IsSubmitMethod(reqs'[r].body.method)
             /\ BadSubmitParams(reqs'[r])) =>
                /\ pc'[r] = "done"
                /\ store' = store
                /\ activeCancellations' = activeCancellations
                /\ counts' = counts
                /\ NothingDone(r)'
                /\ responses'[r] = << >>
                /\ ~streamOpen'[r]
                /\ Len(forwarded'[r]) = 1
                /\ forwarded'[r][1].id = reqs'[r].body.id ]_vars

C20_Witness ==
    \E r \in Req :
        /\ ~hasResolver
        /\ pc[r] = "done"
        /\ isValidJsonRpcRequest(reqs[r].body)
        /\ reqs[r].body.method = "tasks/sendSubscribe"
        /\ "sessionId" \in DOMAIN ParamsOf(reqs[r].body)
        /\ forwarded[r] = << [code |-> "Error", id |-> [num |-> 1]] >>
        /\ arrivals = 2
        /\ store # << >>

(***************************************************************************)
(* C21: for tasks/send and tasks/sendSubscribe, when the request has an    *)
(* authenticated agent session the task is looked up and stored under the  *)
(* session's own identifier, whatever sessionId the caller supplied; when  *)
(* it has none, a supplied sessionId that starts with "did:" is refused    *)
(* before any store access, and any other sessionId, or none, is used as   *)
(* given.                                                                  *)
(***************************************************************************)
\* the session the claim says a well-formed submission is filed under
ExpectedSession(req) ==
    IF AgentSessionOf(req) # Null THEN [v |-> AgentSessionOf(req).agentDid]
    ELSE IF "sessionId" \in DOMAIN req.body.params THEN [v |-> req.body.params.sessionId]
    ELSE Null

GoodSubmission(req) ==
    /\ ~(hasResolver /\ req.auth = Null)
    /\ isValidJsonRpcRequest(req.body)
    /\ IsSubmitMethod(req.body.method)
    /\ ~validateTaskSendParamsThrows(ParamsOf(req.body))

C21_SessionOfSubmission ==
    [][ \A r \in Req :
            /\ (Receives(r) /\ GoodSubmission(reqs'[r])) =>
                   LET req == reqs'[r]
                       key == createTaskKey(req.body.params.id, ExpectedSession(req))
                   IN  IF /\ AgentSessionOf(req) = Null
                          /\ "sessionId" \in DOMAIN req.body.params
                          /\ Len(req.body.params.sessionId) >= 4
                          /\ SubSeq(req.body.params.sessionId, 1, 4) = "did:"
                       THEN /\ pc'[r] = "done"
                            /\ Len(forwarded'[r]) = 1
                            /\ NothingDone(r)'
                            /\ store' = store
                       ELSE /\ pc'[r] = "loaded"
                            /\ loaded'[r] = IF key \in DOMAIN store THEN store[key] ELSE Null
            /\ (pc[r] = "loaded" /\ pc'[r] = "resolving" /\ ~saveFailed'[r]) =>
                   LET key == createTaskKey(TaskIdOf(r), ExpectedSession(reqs[r]))
                       task == saveLog'[r][1].data.task
                   IN  /\ key \in DOMAIN store'
                       /\ store'[key] = saveLog'[r][1].data
                       /\ \A k \in DOMAIN store : k # key => store'[k] = store[k]
                       /\ DOMAIN store' = DOMAIN store \cup {key}
                       /\ TaskSession(task) = ExpectedSession(reqs[r]) ]_vars

\* a caller with a session and a caller without one have both submitted
\* task t1 naming the session "s1": the records are filed apart
C21_Witness ==
    /\ hasResolver = FALSE
    /\ arrivals = 2
    /\ \E r \in Req :
          /\ pc[r] = "done"
          /\ "sessionId" \in DOMAIN ParamsOf(reqs[r].body)
          /\ reqs[r].body.params.sessionId = "s1"
          /\ returned[r] # << >>
    /\ DOMAIN store = {"s1:t1", ":t1"}

(***************************************************************************)
(* C22: the store keeps a separate record for every (task id, session id)  *)
(* pair, whatever strings are used as task id and session id: a save made  *)
(* for a request under its pair never changes what loadTask returns for    *)
(* any other pair.                                                         *)
(***************************************************************************)
\* the (task id, session id) pair under which request r's handler works
PairOf(r) == << TaskIdOf(r), SessionIdOf(reqs[r]) >>

Pairs == { << t, [v |-> d] >> : t \in TaskIds, d \in {AgentDid, HostDid} }

C22_PairsKeptApart ==
    [][ \A r \in Req :
            (saveLog'[r] # saveLog[r] /\ saveLog'[r] # << >> /\ ~saveFailed'[r]) =>
                \A p \in Pairs :
                    p # PairOf(r) => loadTask(p[1], p[2])' = loadTask(p[1], p[2]) ]_vars

(***************************************************************************)
(* Definitions used to state the properties of artifact updates.           *)
(***************************************************************************)
\* the artifacts saved by the k-th saveTask call of request r
SavedArtifacts(r, k) == saveLog[r][k].data.task.artifacts

\* the index values of the artifact updates applied up to the k-th save
\* of request r, those of earlier requests on the record included
IndexesIn(arts) == { arts[i].index : i \in { j \in 1 .. Len(arts) : "index" \in DOMAIN arts[j] } }

\* the step applies the handler's value v for request r
Applies(r, v) ==
    /\ pc[r] = "pulling"
    /\ Len(yielded'[r]) = Len(yielded[r]) + 1
    /\ yielded'[r][Len(yielded'[r])].value = v

(***************************************************************************)
(* C23: after any sequence of artifact updates that each carry an explicit *)
(* index, sent in any order and applied to an artifact sequence the engine *)
(* produced, the task's artifact sequence holds exactly one artifact for   *)
(* every distinct index value sent.                                        *)
(***************************************************************************)
C23_OneArtifactPerIndex ==
    [][ \A r \in Req : \A v \in taskHandler :
            (Applies(r, v) /\ isArtifactUpdate(v) /\ "index" \in DOMAIN v) =>
                LET old == currentData[r].task.artifacts
                    new == currentData'[r].task.artifacts
                IN  /\ IndexesIn(new) = IndexesIn(old) \cup {v.index}
                    /\ \A i \in IndexesIn(new) :
                           Cardinality({ j \in 1 .. Len(new) : new[j].index = i }) = 1 ]_vars

(***************************************************************************)
(* C24: after every applied artifact update, if at least one artifact of   *)
(* the task carries an index, the artifact sequence is in ascending order  *)
(* of index, an artifact without index counting as index 0.                *)
(***************************************************************************)
C24_ArtifactsSortedByIndex ==
    [][ \A r \in Req : \A v \in taskHandler :
            (Applies(r, v) /\ isArtifactUpdate(v)) =>
                LET new == currentData'[r].task.artifacts
                    Index(j) == IF "index" \in DOMAIN new[j] THEN new[j].index ELSE 0
                IN  IndexesIn(new) # {} =>
                        \A i, j \in 1 .. Len(new) : i < j => Index(i) <= Index(j) ]_vars

(***************************************************************************)
(* C25: an artifact update with append = true and index i, applied to a    *)
(* task that holds an artifact whose index is i, adds no artifact and      *)
(* leaves that artifact with its previous parts followed by the parts of   *)
(* the update, every previous part occurring once.                         *)
(***************************************************************************)
C25_AppendExtendsIndexedArtifact ==
    [][ \A r \in Req : \A v \in taskHandler :
            (/\ Applies(r, v)
             /\ isArtifactUpdate(v)
             /\ "index" \in DOMAIN v
             /\ "append" \in DOMAIN v
             /\ v.append = TRUE
             /\ v.index \in IndexesIn(currentData[r].task.artifacts)) =>
                LET old == currentData[r].task.artifacts
                    new == currentData'[r].task.artifacts
                IN  /\ Len(new) = Len(old)
                    /\ \A j \in 1 .. Len(old) :
                           old[j].index = v.index =>
                               new[j].parts = old[j].parts \o v.parts ]_vars

(***************************************************************************)
(* C26: every status the engine commits (a yielded status update, the      *)
(* resolver's new task or transition, cancel, the synthetic failed status, *)
(* the forced completed status) carries the server's time at the moment    *)
(* the update is applied; a timestamp inside a yielded status update is    *)
(* never the value stored.                                                 *)
(***************************************************************************)
C26_StatusCarriesServerTime ==
    [][ \A r \in Req :
            Len(saveLog'[r]) = Len(saveLog[r]) + 1 =>
                LET entry == saveLog'[r][Len(saveLog'[r])]
                    commitsStatus ==
                        \/ entry.by \in {"cancel", "failed", "forced"}
                        \/ /\ entry.by = "resolver"
                           /\ \/ loaded[r] = Null
                              \/ loaded[r].task.status.state \in
                                     {"completed", "failed", "canceled", "input-required"}
                        \/ /\ entry.by = "loop"
                           /\ isTaskStatusUpdate(yielded'[r][Len(yielded'[r])].value)
                IN  commitsStatus =>
                        /\ entry.data.task.status.timestamp = now'
                        /\ now' \in {now, now + 1}
                        /\ entry.data.task.status.timestamp # HandlerClock ]_vars

\* the handler's status update with a timestamp of its own has been
\* applied and stored with the clock's value
C26_Witness ==
    \E r \in Req :
        /\ Len(yielded[r]) >= 1
        /\ yielded[r][1].value = Stamped
        /\ pc[r] = "done"
        /\ store[createTaskKey("t1", [v |-> AgentDid])].task.status =
               [state |-> "working", timestamp |-> 1, message |-> Null]

(***************************************************************************)
(* C27: for a given (task id, session id) a new task record (state         *)
(* submitted, no artifacts, no status message, the initial message as the  *)
(* whole history) is constructed once, by the first submission; every      *)
(* later submission, also one that overlaps the first in time, loads the   *)
(* existing record and appends its message to it.                          *)
(***************************************************************************)
C27_RecordCreatedOnce ==
    [][ \A r \in Req :
            (pc[r] = "loaded" /\ pc'[r] = "resolving") =>
                LET key == createTaskKey(TaskIdOf(r), SessionIdOf(reqs[r]))
                    data == saveLog'[r][1].data
                    message == reqs[r].body.params.message
                IN  IF key \notin DOMAIN store
                    THEN /\ data.task.status.state = "submitted"
                         /\ data.task.status.message = Null
                         /\ data.task.artifacts = << >>
                         /\ data.history = << message >>
                    ELSE /\ loaded[r] # Null
                         /\ data.history = Append(loaded[r].history, message) ]_vars

(***************************************************************************)
(* C28: for every tasks/sendSubscribe request that opens a stream, the     *)
(* stream is closed exactly once on every path (after a yielded final      *)
(* status event, after the synthetic final event, after the failed event   *)
(* of the error path): it is not left open once the handler's sequence     *)
(* has ended and res.end() is not called a second time.                    *)
(***************************************************************************)
C28_StreamClosedOnce ==
    \A r \in Req :
        /\ ended[r] <= 1
        /\ ~streamOpen[r] => ended[r] = 0
        /\ (streamOpen[r] /\ ~InProgress(r)) => ended[r] = 1

\* a stream closed on the error path, the save of the failed status
\* having been rejected as well
C28_Witness ==
    \E r \in Req :
        /\ streamOpen[r]
        /\ pc[r] = "done"
        /\ ended[r] = 1
        /\ handlerError[r] \in HandlerErrors
        /\ saveFailed[r]
        /\ Len(events[r]) = 1

(***************************************************************************)
(* C29: a task created by a successful tasks/send or tasks/sendSubscribe   *)
(* can afterwards be retrieved with tasks/get and cancelled with           *)
(* tasks/cancel by the same caller using the same task id, when the        *)
(* service has a session resolver and when it has none.                    *)
(***************************************************************************)
\* the key of the record a submission of request r's caller, naming the
\* same task id and no session of its own, is stored under
CallerKey(r) ==
    createTaskKey(reqs[r].body.params.id,
                  IF hasResolver THEN [v |-> reqs[r].auth.agentDid] ELSE Null)

C29_CreatedTaskIsReachable ==
    \A r \in Req :
        (/\ IsCall(r, {"tasks/get", "tasks/cancel"})
         /\ NamesTask(r)
         /\ pc[r] = "done"
         /\ ~saveFailed[r]
         /\ CallerKey(r) \in DOMAIN store
         /\ store[CallerKey(r)].task.status.state # "failed") =>
            /\ forwarded[r] = << >>
            /\ Len(returned[r]) = 1
            /\ returned[r][1].id = reqs[r].body.params.id
            /\ reqs[r].body.method = "tasks/get" => returned[r][1] = store[CallerKey(r)].task
            /\ reqs[r].body.method = "tasks/cancel" =>
                   returned[r][1].status.state \in {"completed", "canceled"}

(***************************************************************************)
(* C30: when a tasks/cancel request for a task is processed while the      *)
(* task's handler is running, and the handler polls isCancelled() between  *)
(* every two units of work, the handler observes isCancelled() = true at   *)
(* the latest at its first poll after the cancel request has completed.    *)
(***************************************************************************)
\* request q is a cancel of request r's task that loaded what r's loop had
\* saved, so it was processed after r's handler had started, and that has
\* completed: the canceled status is saved and the task returned
CancelledWhileRunning(r, q) ==
    /\ q # r
    /\ IsSubmit(r)
    /\ Method(q) = "tasks/cancel"
    /\ TaskIdOf(q) = TaskIdOf(r)
    /\ pc[q] = "done"
    /\ saveLog[q] # << >>
    /\ returned[q] # << >>
    /\ \E k \in 1 .. Len(saveLog[r]) :
          IsLoopSave(saveLog[r][k]) /\ saveLog[r][k].data = loaded[q]

C30_HandlerObservesCancel ==
    [][ \A r, q \in Req :
            (/\ CancelledWhileRunning(r, q)
             /\ pc[r] = "pulling"
             /\ Len(yielded'[r]) = Len(yielded[r]) + 1) =>
                \E i \in 1 .. Len(yielded'[r]) : yielded'[r][i].cancelled ]_vars

(***************************************************************************)
(* C31: an artifact update with append = true whose slot is resolved by    *)
(* name (index absent or out of bounds, name equal to that of an existing  *)
(* artifact) keeps the parts of the existing artifact and puts the parts   *)
(* of the update after them, and merges the metadata, the update winning   *)
(* on a common key, as when the slot is resolved by index.                 *)
(***************************************************************************)
\* the positions of the artifacts whose name is that of update v
NamedLike(arts, v) ==
    { j \in 1 .. Len(arts) : "name" \in DOMAIN arts[j] /\ arts[j].name = v.name }

MetadataOf(a) == IF "metadata" \in DOMAIN a THEN a.metadata ELSE << >>

C31_AppendByNameExtends ==
    [][ \A r \in Req : \A v \in taskHandler :
            (/\ Applies(r, v)
             /\ isArtifactUpdate(v)
             /\ "append" \in DOMAIN v
             /\ v.append = TRUE
             /\ "index" \in DOMAIN v => v.index >= Len(currentData[r].task.artifacts)
             /\ "name" \in DOMAIN v
             /\ NamedLike(currentData[r].task.artifacts, v) # {}) =>
                LET old == currentData[r].task.artifacts
                    new == currentData'[r].task.artifacts
                    j == CHOOSE i \in NamedLike(old, v) : \A k \in NamedLike(old, v) : i <= k
                IN  /\ Len(new) = Len(old)
                    /\ new[j].parts = old[j].parts \o v.parts
                    /\ MetadataOf(new[j]) = Spread(MetadataOf(old[j]), MetadataOf(v)) ]_vars

(***************************************************************************)
(* C32: in tasks/sendSubscribe the artifact event written for a yielded    *)
(* artifact update carries the artifact that stands, in the new task, at   *)
(* the slot the update was applied to (the merged artifact when the update *)
(* was appended), whatever index and name the update and the existing      *)
(* artifacts have, and its final flag is false.                            *)
(***************************************************************************)
RemoveAt(s, j) == SubSeq(s, 1, j - 1) \o SubSeq(s, j + 1, Len(s))

\* the positions at which update v can have been applied, given the
\* artifact sequences before and after it
AppliedSlots(old, new, v) ==
    IF Len(new) = Len(old) + 1
    THEN { j \in 1 .. Len(new) : RemoveAt(new, j) = old /\ new[j] = v }
    ELSE IF new # old
    THEN { j \in 1 .. Len(new) : new[j] # old[j] }
    ELSE { j \in 1 .. Len(new) : new[j] = v }

C32_ArtifactEventCarriesAppliedSlot ==
    [][ \A r \in Req :
            (/\ pc[r] = "saving"
             /\ Method(r) = "tasks/sendSubscribe"
             /\ isArtifactUpdate(yielded[r][Len(yielded[r])].value)
             /\ Len(events'[r]) = Len(events[r]) + 1) =>
                LET v == yielded[r][Len(yielded[r])].value
                    old == saveLog[r][Len(saveLog[r]) - 1].data.task.artifacts
                    new == saveLog[r][Len(saveLog[r])].data.task.artifacts
                    event == events'[r][Len(events'[r])].result
                IN  /\ event.final = FALSE
                    /\ \E j \in AppliedSlots(old, new, v) : event.artifact = new[j] ]_vars

(***************************************************************************)
(* C33: in tasks/sendSubscribe, once a status event with final = true has  *)
(* been written, no further update of that handler invocation is pulled,   *)
(* applied, saved or emitted: the save that preceded the final event is    *)
(* the last save of the request.                                           *)
(***************************************************************************)
C33_NothingAfterFinalEvent ==
    [][ \A r \in Req :
            (/\ Method(r) = "tasks/sendSubscribe"
             /\ FinalEvents(r) # {}
             /\ ~Receives(r)) =>
                /\ pulls'[r] = pulls[r]
                /\ yielded'[r] = yielded[r]
                /\ saveLog'[r] = saveLog[r]
                /\ events'[r] = events[r]
                /\ currentData'[r] = currentData[r] ]_vars

\* the handler yielded input-required as its first value; the event was
\* final and the request ended although the handler could deliver more
C33_Witness ==
    \E r \in Req :
        /\ Method(r) = "tasks/sendSubscribe"
        /\ pc[r] = "done"
        /\ YieldedValues(r) = << InputRequired >>
        /\ FinalEvents(r) = {1}
        /\ Len(saveLog[r]) = 2
        /\ delivered < MaxYields

(***************************************************************************)
(* C34: in tasks/sendSubscribe the status event written for a yielded      *)
(* status update has final = true if and only if the state of the task     *)
(* after the update was applied is one of completed, failed, canceled,     *)
(* input-required.                                                         *)
(***************************************************************************)
C34_FinalIffFinalState ==
    [][ \A r \in Req :
            (/\ pc[r] = "saving"
             /\ Method(r) = "tasks/sendSubscribe"
             /\ isTaskStatusUpdate(yielded[r][Len(yielded[r])].value)
             /\ Len(events'[r]) = Len(events[r]) + 1) =>
                LET applied == saveLog[r][Len(saveLog[r])].data.task.status
                    event == events'[r][Len(events'[r])].result
                IN  /\ event.status = applied
                    /\ event.final =
                           (applied.state \in {"completed", "failed", "canceled", "input-required"}) ]_vars

\* a status event that is not final followed by the final event of
\* input-required
C34_Witness ==
    \E r \in Req :
        /\ Method(r) = "tasks/sendSubscribe"
        /\ YieldedValues(r) = << Working, InputRequired >>
        /\ Len(events[r]) = 2
        /\ ~events[r][1].result.final
        /\ events[r][2].result.final
        /\ events[r][2].result.status.state = "input-required"

(***************************************************************************)
(* C35: in tasks/sendSubscribe, if the handler's sequence ends normally    *)
(* without a final status event having been written and the state of the   *)
(* task is not one of completed, failed, canceled, input-required, then    *)
(* the state is set to completed, that task is saved, and one status event *)
(* with state completed and final = true is written after the save.        *)
(***************************************************************************)
\* the handler of request r has returned: this step is the resumption of
\* the generator.next() that found the sequence done
SequenceEnds(r) ==
    /\ pc[r] = "pulling"
    /\ pc'[r] # "pulling"
    /\ yielded'[r] = yielded[r]
    /\ handlerError'[r] = handlerError[r]

C35_ForcedCompletion ==
    [][ \A r \in Req :
            /\ (/\ Method(r) = "tasks/sendSubscribe"
                /\ SequenceEnds(r)
                /\ FinalEvents(r) = {}
                /\ currentData[r].task.status.state \notin
                       {"completed", "failed", "canceled", "input-required"}) =>
                   /\ pc'[r] = "forcing"
                   /\ currentData'[r].task.status.state = "completed"
                   /\ Len(saveLog'[r]) = Len(saveLog[r]) + 1
                   /\ saveLog'[r][Len(saveLog'[r])].data = currentData'[r]
                   /\ events'[r] = events[r]
            /\ (pc[r] = "forcing" /\ ~saveFailed[r]) =>
                   /\ Len(events'[r]) = Len(events[r]) + 1
                   /\ events'[r][Len(events'[r])].result.final
                   /\ events'[r][Len(events'[r])].result.status.state = "completed"
                   /\ events'[r][Len(events'[r])].result.status = store[createTaskKey(TaskIdOf(r), SessionIdOf(reqs[r]))].task.status
                   /\ pc'[r] = "done" ]_vars

(***************************************************************************)
(* C36: a yielded value that is neither a status update nor an artifact    *)
(* update leaves task and history unchanged in tasks/send and in           *)
(* tasks/sendSubscribe, produces no event on the stream, and does not stop *)
(* the loop: later updates of the sequence are still applied and emitted.  *)
(***************************************************************************)
\* v is neither a record with state and without parts nor a record with
\* parts
OfUnknownShape(v) == "parts" \notin DOMAIN v /\ "state" \notin DOMAIN v

C36_UnclassifiedIsSkipped ==
    [][ \A r \in Req :
            /\ \A v \in taskHandler :
                   (Applies(r, v) /\ OfUnknownShape(v)) =>
                       /\ currentData'[r] = currentData[r]
                       /\ saveLog'[r][Len(saveLog'[r])].data = currentData[r]
                       /\ store' = store
                       /\ events'[r] = events[r]
            /\ (/\ pc[r] = "saving"
                /\ OfUnknownShape(yielded[r][Len(yielded[r])].value)) =>
                   /\ pc'[r] = "pulling"
                   /\ pulls'[r] = pulls[r] + 1
                   /\ events'[r] = events[r]
                   /\ returned'[r] = returned[r]
                   /\ forwarded'[r] = forwarded[r]
                   /\ currentData'[r] = currentData[r]
                   /\ store' = store ]_vars

\* after a value of unknown shape the stream still got the event of the
\* next update, which was applied to the task
C36_Witness ==
    \E r \in Req :
        /\ Method(r) = "tasks/sendSubscribe"
        /\ YieldedValues(r) = << Unrecognized, Working >>
        /\ pc[r] = "pulling"
        /\ Len(events[r]) = 1
        /\ events[r][1].result.status.state = "working"
        /\ saveLog[r][2].data = saveLog[r][1].data
        /\ currentData[r].task.status.state = "working"

(***************************************************************************)
(* C37: in every reachable state in which no tasks/cancel request is in    *)
(* progress the cancellation registry is empty; in particular a task id    *)
(* does not stay in the registry after a tasks/cancel request has ended    *)
(* with an error such as a failed save.                                    *)
(***************************************************************************)
CancelInProgress ==
    \E r \in Req : InProgress(r) /\ IsCall(r, {"tasks/cancel"})

C37_RegistryEmptyWhenIdle ==
    ~CancelInProgress => activeCancellations = {}

(***************************************************************************)
(* C38: isCancelled(), evaluated by the handler of a task stored under     *)
(* (task id, session S), returns true only while a tasks/cancel request    *)
(* for that task, same id and same session S, is in progress; a cancel     *)
(* issued in another session for a task with the same id never makes it    *)
(* true.                                                                   *)
(***************************************************************************)
C38_CancelSignalStaysInSession ==
    [][ \A r \in Req :
            (/\ IsSubmit(r)
             /\ pc[r] = "pulling"
             /\ Len(yielded'[r]) = Len(yielded[r]) + 1
             /\ yielded'[r][Len(yielded'[r])].cancelled) =>
                \E q \in Req :
                    /\ q # r
                    /\ Method(q) = "tasks/cancel"
                    /\ InProgress(q)
                    /\ TaskIdOf(q) = TaskIdOf(r)
                    /\ SessionIdOf(reqs[q]) = SessionIdOf(reqs[r]) ]_vars

(***************************************************************************)
(* C39: in tasks/sendSubscribe, whenever the handler's sequence ends       *)
(* normally without a final status event having been written, the          *)
(* synthetic final event carries the state completed: the handler starts   *)
(* from a task in state submitted or working and every status update that  *)
(* reaches a final-eligible state ends the loop, so the branch that sends  *)
(* an already final state without forcing completed is never taken.        *)
(***************************************************************************)
C39_SyntheticFinalIsCompleted ==
    [][ \A r \in Req :
            Method(r) = "tasks/sendSubscribe" =>
                /\ (pc[r] = "resolving" /\ pc'[r] = "pulling") =>
                       currentData[r].task.status.state \in {"submitted", "working"}
                /\ (SequenceEnds(r) /\ FinalEvents(r) = {}) =>
                       /\ currentData[r].task.status.state \notin
                              {"completed", "failed", "canceled", "input-required"}
                       /\ pc'[r] = "forcing"
                /\ (/\ pc[r] \in {"pulling", "forcing"}
                    /\ handlerError'[r] = ""
                    /\ Len(events'[r]) = Len(events[r]) + 1) =>
                       /\ events'[r][Len(events'[r])].result.final
                       /\ events'[r][Len(events'[r])].result.status.state = "completed" ]_vars

\* a second submission to a completed task whose handler returned without
\* yielding: the task was reset to submitted, then forced to completed
C39_Witness ==
    \E r \in Req :
        /\ Method(r) = "tasks/sendSubscribe"
        /\ pc[r] = "done"
        /\ arrivals = 2
        /\ yielded[r] = << >>
        /\ Len(saveLog[r]) = 2
        /\ Len(saveLog[r][1].data.history) >= 2
        /\ saveLog[r][1].data.task.status.state = "submitted"
        /\ saveLog[r][2].by = "forced"
        /\ Len(events[r]) = 1
        /\ events[r][1].result.status.state = "completed"

(***************************************************************************)
(* C40: for the same initial stored task and the same finite, error-free   *)
(* handler sequence, tasks/send and tasks/sendSubscribe leave the same     *)
(* task (state and artifacts) and the same history in the store when the   *)
(* request finishes.                                                       *)
(***************************************************************************)
\* what tasks/send leaves in the store for the task the resolver returned
\* and the whole sequence of the handler: every update applied in order
SendLeaves(r) == ApplyAll(saveLog[r][1].data, yielded[r])

\* the handler of request r returned after the values in yielded[r], and
\* the request has finished without any error
FinishedWholeSequence(r) ==
    /\ IsSubmit(r)
    /\ pc[r] = "done"
    /\ handlerError[r] = ""
    /\ forwarded[r] = << >>
    /\ pulls[r] = Len(yielded[r]) + 1
    /\ streamOpen[r] => ended[r] = 1

StoredFor(r) == store[createTaskKey(TaskIdOf(r), SessionIdOf(reqs[r]))]

\* the statement of the claim: both methods leave what tasks/send leaves
C40_SameStoredTaskAndHistory ==
    \A r \in Req :
        FinishedWholeSequence(r) =>
            /\ StoredFor(r).task.status.state = SendLeaves(r).task.status.state
            /\ StoredFor(r).task.artifacts = SendLeaves(r).task.artifacts
            /\ StoredFor(r).history = SendLeaves(r).history

\* the claim as amended: both methods save the same task and history
\* after each update they apply; tasks/sendSubscribe applies no update
\* after the first status update that reaches completed, failed, canceled
\* or input-required, and when the sequence ends without such an update
\* it saves the task once more with the state completed and with the
\* artifacts and the history unchanged
C40_SameSavesUntilFinal ==
    \A r \in Req :
        (IsSubmit(r) /\ saveLog[r] # << >>) =>
            /\ \A k \in 1 .. Len(LoopSaves(r)) :
                   LoopSaves(r)[k].data =
                       ApplyAll(saveLog[r][1].data, SubSeq(yielded[r], 1, k))
            /\ Method(r) = "tasks/sendSubscribe" =>
                   /\ \A k \in 1 .. Len(yielded[r]) - 1 :
                          ~(/\ "state" \in DOMAIN yielded[r][k].value
                            /\ "parts" \notin DOMAIN yielded[r][k].value
                            /\ yielded[r][k].value.state \in
                                   {"completed", "failed", "canceled", "input-required"})
                   /\ \A n \in 1 .. Len(saveLog[r]) :
                          saveLog[r][n].by = "forced" =>
                              /\ n = Len(yielded[r]) + 2
                              /\ pulls[r] = Len(yielded[r]) + 1
                              /\ saveLog[r][n].data.task.status.state = "completed"
                              /\ saveLog[r][n].data.task.artifacts = SendLeaves(r).task.artifacts
                              /\ saveLog[r][n].data.history = SendLeaves(r).history
                              /\ SendLeaves(r).task.status.state \notin
                                     {"completed", "failed", "canceled", "input-required"}
            /\ Method(r) = "tasks/send" =>
                   \A n \in 1 .. Len(saveLog[r]) : saveLog[r][n].by # "forced"

\* the handler yielded working and an artifact and returned; the streaming
\* request left the task completed where tasks/send leaves it working
C40_Witness ==
    \E r \in Req :
        /\ Method(r) = "tasks/sendSubscribe"
        /\ FinishedWholeSequence(r)
        /\ YieldedValues(r) = << Working, OutTxt >>
        /\ SendLeaves(r).task.status.state = "working"
        /\ StoredFor(r).task.status.state = "completed"
        /\ StoredFor(r).task.artifacts = SendLeaves(r).task.artifacts
        /\ StoredFor(r).history = SendLeaves(r).history

====
